---- MODULE Spec2Model ----
(***************************************************************************)
(* A model of the diagram-to-DAG compiler of the questionnaire parser:     *)
(*   - ValidationCollector          (utils/validation.py)                  *)
(*   - DAGConverter and its passes  (core/graph_converter.py)              *)
(*   - EdgeLogicCalculator          (utils/edge_logic.py)                  *)
(*   - DrawIoParser                 (core/parser.py)                       *)
(*   - Diagram.validate_structure,  (models/diagram.py)                    *)
(*     Diagram.validate_dag                                                *)
(*   - ExternalReferences           (business_rules/external_flags.py)     *)
(* The converter works on a networkx DiGraph; the model keeps the parts of *)
(* its semantics the passes rely on: nodes and edges are kept in insertion *)
(* order, at most one edge exists per ordered pair of nodes (add_edge on   *)
(* an existing pair updates its attributes), add_edge creates missing      *)
(* endpoints as attribute-less nodes, and remove_node removes the incident *)
(* edges.                                                                  *)
(***************************************************************************)
EXTENDS Integers, Sequences, FiniteSets, TLC

VARIABLES
    diagram,    \* the Diagram handed to DAGConverter (nodes, edges, groups)
    externals,  \* diagram.allowed_externals: [flags, numerics] sets of names
    level,      \* validation_level of the bound collector, or NoValidator
    results,    \* ValidationCollector.results
    raised,     \* the last call raised (the exception leaves convert())
    graph,      \* DAGConverter.graph
    pre,        \* history: graph as it was before the pass that ran last
    pc,         \* the pass of convert() that runs next
    probe,      \* inputs and output of the pure functions checked on their own
    source      \* the draw.io file handed to DrawIoParser.parse_file

vars == <<diagram, externals, level, results, raised, graph, pre, pc, probe, source>>

----------------------------------------------------------------------------
(* Python values *)

\* None, for attributes whose values are strings
NoneStr == "<None>"

\* str.lower() on the label vocabulary of the model
Lower(s) ==
    CASE s = "Yes" -> "yes"
    []   s = "YES" -> "yes"
    []   s = "No" -> "no"
    []   s = "NO" -> "no"
    []   s = " Yes " -> " yes "
    []   s = "Maybe" -> "maybe"
    []   OTHER -> s

\* str.strip() on the label vocabulary of the model
Strip(s) ==
    CASE s = " Yes " -> "Yes"
    []   s = " yes " -> "yes"
    []   OTHER -> s

Last(s) == s[Len(s)]

SeqToSet(s) == {s[i] : i \in 1..Len(s)}

\* dict.update(): the keys of upd replace those of old
Update(old, upd) ==
    [k \in DOMAIN old |-> IF k \in DOMAIN upd THEN upd[k] ELSE old[k]]

----------------------------------------------------------------------------
(* ValidationCollector *)

Severities == {"CRITICAL", "ERROR", "WARNING"}
Levels == {"STRICT", "NORMAL", "LENIENT"}
NoValidator == "NoValidator"

\* a handling in which NORMAL raises on ERROR as STRICT does
HandleResultNormalRaisesOnError(lvl, sev) ==
    \/ lvl = "STRICT" /\ sev \in {"CRITICAL", "ERROR"}
    \/ lvl = "NORMAL" /\ sev \in {"CRITICAL", "ERROR"}

\* _handle_result: TRUE when the call raises ValueError
HandleResult(lvl, sev) ==
    \/ lvl = "STRICT" /\ sev \in {"CRITICAL", "ERROR"}
    \/ lvl = "NORMAL" /\ sev = "CRITICAL"

ValidationResult(sev, msg, eid, etype) ==
    [severity |-> sev, message |-> msg, element_id |-> eid, element_type |-> etype]

\* an add_result that decides on the abort first and keeps the result only
\* when it does not raise
AddResultDecideFirst(res, lvl, sev, msg, eid, etype) ==
    [results |-> IF HandleResult(lvl, sev) THEN res
                 ELSE Append(res, ValidationResult(sev, msg, eid, etype)),
     raised  |-> HandleResult(lvl, sev)]

\* add_result: the result is appended first, then _handle_result may raise
AddResult(res, lvl, sev, msg, eid, etype) ==
    [results |-> Append(res, ValidationResult(sev, msg, eid, etype)),
     raised  |-> HandleResult(lvl, sev)]

\* has_critical_issues
HasCriticalIssues(res) == \E i \in 1..Len(res) : res[i].severity = "CRITICAL"

----------------------------------------------------------------------------
(* networkx.DiGraph *)

EmptyGraph == [nodes |-> <<>>, attrs |-> <<>>, edges |-> <<>>]

\* attribute dictionaries; a missing key is NoneStr / an empty sequence
NoAttrs ==
    [shape |-> NoneStr, label |-> NoneStr, rounded |-> FALSE, fill_color |-> <<>>,
     name |-> NoneStr, options |-> <<>>, has_options |-> FALSE,
     type |-> NoneStr, severity |-> NoneStr, is_diagnosis |-> NoneStr,
     value_type |-> NoneStr, group_id |-> NoneStr, group_heading |-> NoneStr,
     help_text |-> NoneStr, hint_text |-> NoneStr]

NoEdgeAttrs ==
    [id |-> NoneStr, label |-> NoneStr, option |-> NoneStr,
     original_target |-> NoneStr, logic |-> <<>>]

NodeSet(g) == SeqToSet(g.nodes)

HasNodeG(g, n) == n \in NodeSet(g)

IndexOf(s, x) == CHOOSE i \in 1..Len(s) : s[i] = x

NodeAttrs(g, n) == g.attrs[IndexOf(g.nodes, n)]

\* attrs.get("label", "")
LabelOr(a) == IF a.label = NoneStr THEN "" ELSE a.label

\* add_node(n, **a): a new node is appended, an existing one is updated
AddNode(g, n, a) ==
    IF HasNodeG(g, n)
    THEN [g EXCEPT !.attrs[IndexOf(g.nodes, n)] = Update(@, a)]
    ELSE [g EXCEPT !.nodes = Append(@, n), !.attrs = Append(@, Update(NoAttrs, a))]

\* graph.nodes[n].update(a)
SetAttrs(g, n, a) == [g EXCEPT !.attrs[IndexOf(g.nodes, n)] = Update(@, a)]

HasEdge(g, u, v) == \E i \in 1..Len(g.edges) : g.edges[i].src = u /\ g.edges[i].tgt = v

EdgeIndex(g, u, v) == CHOOSE i \in 1..Len(g.edges) : g.edges[i].src = u /\ g.edges[i].tgt = v

EdgeOf(g, u, v) == g.edges[EdgeIndex(g, u, v)]

\* add_edge(u, v, **a): missing endpoints become attribute-less nodes
\* (u first); an existing edge u -> v keeps its place and is updated
AddEdge(g, u, v, a) ==
    LET g1 == IF HasNodeG(g, u) THEN g ELSE AddNode(g, u, <<>>)
        g2 == IF HasNodeG(g1, v) THEN g1 ELSE AddNode(g1, v, <<>>)
    IN  IF HasEdge(g2, u, v)
        THEN [g2 EXCEPT !.edges[EdgeIndex(g2, u, v)] =
                  [src |-> u, tgt |-> v, a |-> Update(@.a, a)]]
        ELSE [g2 EXCEPT !.edges =
                  Append(@, [src |-> u, tgt |-> v, a |-> Update(NoEdgeAttrs, a)])]

RemoveEdge(g, u, v) ==
    [g EXCEPT !.edges = SelectSeq(@, LAMBDA e : ~(e.src = u /\ e.tgt = v))]

\* remove_node(n): the node, its attributes and its incident edges
RemoveNode(g, n) ==
    LET keep == {i \in 1..Len(g.nodes) : g.nodes[i] # n}
        F[i \in 0..Len(g.nodes)] ==
            IF i = 0 THEN [nodes |-> <<>>, attrs |-> <<>>]
            ELSE IF i \in keep
                 THEN [nodes |-> Append(F[i-1].nodes, g.nodes[i]),
                       attrs |-> Append(F[i-1].attrs, g.attrs[i])]
                 ELSE F[i-1]
    IN  [nodes |-> F[Len(g.nodes)].nodes,
         attrs |-> F[Len(g.nodes)].attrs,
         edges |-> SelectSeq(g.edges, LAMBDA e : e.src # n /\ e.tgt # n)]

\* out_edges(n, data=True) and in_edges(n, data=True), in adjacency order
OutEdges(g, n) == SelectSeq(g.edges, LAMBDA e : e.src = n)
InEdges(g, n) == SelectSeq(g.edges, LAMBDA e : e.tgt = n)

Successors(g, n) == {e.tgt : e \in SeqToSet(OutEdges(g, n))}
Predecessors(g, n) == {e.src : e \in SeqToSet(InEdges(g, n))}

\* graph.edges(data=True): node by node, each node's out-edges in order
RECURSIVE EdgesFrom(_, _)
EdgesFrom(g, i) ==
    IF i > Len(g.nodes) THEN <<>>
    ELSE OutEdges(g, g.nodes[i]) \o EdgesFrom(g, i + 1)

Edges(g) == EdgesFrom(g, 1)

\* degree(n): in-degree plus out-degree (a self-loop counts twice)
Degree(g, n) == Len(OutEdges(g, n)) + Len(InEdges(g, n))

\* nx.is_directed_acyclic_graph
Reach(g) ==
    LET N == NodeSet(g)
        E == {<<e.src, e.tgt>> : e \in SeqToSet(g.edges)}
        R[k \in 0..Cardinality(N)] ==
            IF k = 0 THEN E
            ELSE R[k-1] \cup
                 {<<p[1], q[2]>> : <<p, q>> \in {pq \in R[k-1] \X E : pq[1][2] = pq[2][1]}}
    IN  R[Cardinality(N)]

IsDirectedAcyclicGraph(g) == \A n \in NodeSet(g) : <<n, n>> \notin Reach(g)

----------------------------------------------------------------------------
(* DAGConverter._initial_conversion *)

\* _is_color_in_range on a colour given by its channels <<r, g, b>>; <<>> is
\* a missing colour.  The grey test compares each channel with the mean
\* (r + g + b) / 3, here multiplied by 3 to stay in the integers.
Abs(x) == IF x < 0 THEN -x ELSE x

IsColorInRange(color, color_name) ==
    IF color = <<>> THEN FALSE
    ELSE LET r == color[1]
             g == color[2]
             b == color[3]
             sum == r + g + b
         IN  CASE color_name = "red" -> r > 180 /\ g < 100 /\ b < 100
             []   color_name = "green" -> r < 150 /\ g > 150 /\ b < 150
             []   color_name = "blue" -> r < 100 /\ g < 150 /\ b > 180
             []   color_name \in {"grey", "gray"} ->
                      /\ Abs(3 * r - sum) <= 30
                      /\ Abs(3 * g - sum) <= 30
                      /\ Abs(3 * r - sum) <= 30
             []   color_name = "yellow" -> r > 180 /\ g > 180 /\ b < 100
             []   color_name = "orange" -> r > 180 /\ 100 < g /\ g < 180 /\ b < 100
             []   OTHER -> FALSE

\* a classification that tests the help and hint colours on every rectangle,
\* with or without incoming edges
ClassifyRectangleNodeColourFirst(g, n) ==
    LET a == NodeAttrs(g, n)
        outgoing == OutEdges(g, n)
        fill == a.fill_color
    IN  IF /\ Len(outgoing) > 0
           /\ \A i \in 1..Len(outgoing) : Lower(LabelOr(outgoing[i].a)) \in {"yes", "no"}
        THEN [type |-> "select_one_yesno"]
        ELSE IF IsColorInRange(fill, "green")
        THEN [type |-> "help"]
        ELSE IF IsColorInRange(fill, "grey")
        THEN [type |-> "hint"]
        ELSE IF a.rounded
        THEN IF IsColorInRange(fill, "red")
             THEN [type |-> "diagnosis", severity |-> "SEVERE"]
             ELSE IF IsColorInRange(fill, "orange") \/ IsColorInRange(fill, "yellow")
             THEN [type |-> "diagnosis", severity |-> "MODERATE"]
             ELSE [type |-> "calculate"]
        ELSE [type |-> "note"]

\* _classify_rectangle_node: the attributes it sets on node n
ClassifyRectangleNode(g, n) ==
    LET a == NodeAttrs(g, n)
        outgoing == OutEdges(g, n)
        fill == a.fill_color
    IN  IF /\ Len(outgoing) > 0
           /\ \A i \in 1..Len(outgoing) : Lower(LabelOr(outgoing[i].a)) \in {"yes", "no"}
        THEN [type |-> "select_one_yesno"]
        ELSE IF Len(InEdges(g, n)) = 0 /\ IsColorInRange(fill, "green")
        THEN [type |-> "help"]
        ELSE IF Len(InEdges(g, n)) = 0 /\ IsColorInRange(fill, "grey")
        THEN [type |-> "hint"]
        ELSE IF a.rounded
        THEN IF IsColorInRange(fill, "red")
             THEN [type |-> "diagnosis", severity |-> "SEVERE"]
             ELSE IF IsColorInRange(fill, "orange") \/ IsColorInRange(fill, "yellow")
             THEN [type |-> "diagnosis", severity |-> "MODERATE"]
             ELSE IF IsColorInRange(fill, "green")
             THEN [type |-> "diagnosis", severity |-> "BENIGN"]
             ELSE [type |-> "calculate"]
        ELSE [type |-> "note"]

\* _classify_list_node
ClassifyListNode(g, n) ==
    IF NodeAttrs(g, n).rounded THEN [type |-> "select_one"]
    ELSE [type |-> "select_multiple"]

\* _determine_node_types: every node of the graph, in order; a node that
\* add_edge created has no shape and is typed unknown
RECURSIVE DetermineNodeTypesFrom(_, _)
DetermineNodeTypesFrom(g, i) ==
    IF i > Len(g.nodes) THEN g
    ELSE LET n == g.nodes[i]
             shape == g.attrs[i].shape
             upd == CASE shape = "rectangle" -> ClassifyRectangleNode(g, n)
                    []   shape = "rhombus" -> [type |-> "decision_point"]
                    []   shape = "hexagon" -> [type |-> "integer"]
                    []   shape = "ellipse" -> [type |-> "decimal"]
                    []   shape = "callout" -> [type |-> "text"]
                    []   shape = "offPageConnector" -> [type |-> "goto"]
                    []   shape = "list" -> ClassifyListNode(g, n)
                    []   OTHER -> [type |-> "unknown"]
         IN  DetermineNodeTypesFrom(SetAttrs(g, n, upd), i + 1)

DetermineNodeTypes(g) == DetermineNodeTypesFrom(g, 1)

\* step 1 of _initial_conversion: the attributes of one Diagram node
\* (original_id, page_id and the numeric constraints are copied through
\* and read by no pass; they are left out)
RECURSIVE OptionData(_)
OptionData(opts) ==
    IF opts = <<>> THEN <<>>
    ELSE <<[id |-> opts[1].id, label |-> opts[1].label, option |-> NoneStr]>>
         \o OptionData(Tail(opts))

InitialNodeAttrs(node) ==
    [shape |-> node.shape,
     label |-> node.label,
     rounded |-> node.rounded,
     fill_color |-> node.fill_color,
     name |-> IF node.name = "" THEN NoneStr ELSE node.name,
     options |-> IF node.shape = "list" THEN OptionData(node.options) ELSE <<>>,
     has_options |-> node.shape = "list" /\ node.options # <<>>]

RECURSIVE AddDiagramNodes(_, _)
AddDiagramNodes(g, nodes) ==
    IF nodes = <<>> THEN g
    ELSE AddDiagramNodes(AddNode(g, nodes[1].id, InitialNodeAttrs(nodes[1])), Tail(nodes))

\* step 2: one add_edge per Diagram edge that has both endpoints
RECURSIVE AddDiagramEdges(_, _)
AddDiagramEdges(g, edges) ==
    IF edges = <<>> THEN g
    ELSE LET e == edges[1]
         IN  AddDiagramEdges(
                 IF e.source # NoneStr /\ e.source # "" /\ e.target # NoneStr /\ e.target # ""
                 THEN AddEdge(g, e.source, e.target, [id |-> e.id, label |-> e.label])
                 ELSE g,
                 Tail(edges))

InitialConversionOf(d) ==
    DetermineNodeTypes(AddDiagramEdges(AddDiagramNodes(EmptyGraph, d.nodes), d.edges))

----------------------------------------------------------------------------
(* DAGConverter._simplify_graph, phase 1: type consolidation *)

\* _consolidate_flag_nodes
RECURSIVE ConsolidateFlagNodesFrom(_, _)
ConsolidateFlagNodesFrom(g, i) ==
    IF i > Len(g.nodes) THEN g
    ELSE LET t == g.attrs[i].type
         IN  ConsolidateFlagNodesFrom(
                 IF t \in {"diagnosis", "calculate"}
                 THEN SetAttrs(g, g.nodes[i],
                          [type |-> "flag",
                           is_diagnosis |-> IF t = "diagnosis" THEN "True" ELSE "False"])
                 ELSE g,
                 i + 1)

ConsolidateFlagNodes(g) == ConsolidateFlagNodesFrom(g, 1)

\* _convert_select_one_yesno, one node: every outgoing edge labelled yes/no
\* gets option = its lower-cased label, and the node one option per such edge
RECURSIVE YesNoEdges(_, _, _)
YesNoEdges(g, out, options) ==
    IF out = <<>> THEN [g |-> g, options |-> options]
    ELSE LET e == out[1]
             edge_label == Lower(Strip(LabelOr(e.a)))
             edge_id == IF e.a.id = NoneStr THEN "" ELSE e.a.id
         IN  IF edge_label \in {"yes", "no"} /\ edge_id # ""
             THEN YesNoEdges(
                      AddEdge(g, e.src, e.tgt, [option |-> edge_label]),
                      Tail(out),
                      Append(options, [id |-> edge_id \o "_" \o edge_label,
                                       label |-> edge_label,
                                       option |-> edge_label]))
             ELSE YesNoEdges(g, Tail(out), options)

RECURSIVE ConvertSelectOneYesnoFrom(_, _)
ConvertSelectOneYesnoFrom(g, i) ==
    IF i > Len(g.nodes) THEN g
    ELSE IF g.attrs[i].type = "select_one_yesno"
         THEN LET n == g.nodes[i]
                  r == YesNoEdges(g, OutEdges(g, n), <<>>)
              IN  ConvertSelectOneYesnoFrom(
                      SetAttrs(r.g, n, [type |-> "select_one",
                                        options |-> r.options,
                                        has_options |-> TRUE]),
                      i + 1)
         ELSE ConvertSelectOneYesnoFrom(g, i + 1)

ConvertSelectOneYesno(g) == ConvertSelectOneYesnoFrom(g, 1)

\* _consolidate_numeric_types: attrs is the node's own dictionary, so the
\* type read for value_type is the one just written
RECURSIVE ConsolidateNumericTypesFrom(_, _)
ConsolidateNumericTypesFrom(g, i) ==
    IF i > Len(g.nodes) THEN g
    ELSE IF g.attrs[i].type \in {"integer", "decimal"}
         THEN LET g1 == SetAttrs(g, g.nodes[i], [type |-> "numeric"])
                  value_type == IF g1.attrs[i].type = "integer" THEN "int" ELSE "float"
              IN  ConsolidateNumericTypesFrom(
                      SetAttrs(g1, g.nodes[i], [value_type |-> value_type]), i + 1)
         ELSE ConsolidateNumericTypesFrom(g, i + 1)

ConsolidateNumericTypes(g) == ConsolidateNumericTypesFrom(g, 1)

TypeConsolidation(g) ==
    ConsolidateNumericTypes(ConvertSelectOneYesno(ConsolidateFlagNodes(g)))

----------------------------------------------------------------------------
(* DAGConverter._simplify_graph, phase 2: structural simplifications *)

\* **edge_attrs: only the keys the edge's dictionary holds
PresentEdgeAttrs(a) ==
    [k \in {k \in DOMAIN a : IF k = "logic" THEN a[k] # <<>> ELSE a[k] # NoneStr} |-> a[k]]

\* _simplify_select_options, one option of select node node_id: the option's
\* outgoing edges are re-attached to node_id, then the option node is removed
RECURSIVE ReattachOptionEdges(_, _, _, _)
ReattachOptionEdges(g, node_id, option, out) ==
    IF out = <<>> THEN g
    ELSE ReattachOptionEdges(
             AddEdge(g, node_id, out[1].tgt,
                     [id |-> out[1].a.id, option |-> option.label,
                      label |-> LabelOr(out[1].a)]),
             node_id, option, Tail(out))

InlineOption(g, node_id, option) ==
    IF option.id = NoneStr \/ option.id = "" THEN g
    ELSE IF HasNodeG(g, option.id)
         THEN RemoveNode(
                  ReattachOptionEdges(g, node_id, option, OutEdges(g, option.id)),
                  option.id)
         ELSE g

RECURSIVE InlineOptions(_, _, _)
InlineOptions(g, node_id, options) ==
    IF options = <<>> THEN g
    ELSE InlineOptions(InlineOption(g, node_id, options[1]), node_id, Tail(options))

\* select_nodes: the select nodes that hold an options key, with their options
SelectNodes(g) ==
    SelectSeq([i \in 1..Len(g.nodes) |-> [id |-> g.nodes[i], options |-> g.attrs[i].options,
                                          sel |-> /\ g.attrs[i].type \in {"select_one", "select_multiple"}
                                                  /\ g.attrs[i].has_options]],
              LAMBDA r : r.sel)

RECURSIVE SimplifySelectOptionsOver(_, _)
SimplifySelectOptionsOver(g, select_nodes) ==
    IF select_nodes = <<>> THEN g
    ELSE SimplifySelectOptionsOver(
             InlineOptions(g, select_nodes[1].id, select_nodes[1].options),
             Tail(select_nodes))

SimplifySelectOptions(g) == SimplifySelectOptionsOver(g, SelectNodes(g))

\* _simplify_goto_nodes: target_id is the first node of the graph, in node
\* order, whose name attribute equals the goto's name
FirstNodeNamed(g, name, goto_id) ==
    LET hits == {i \in 1..Len(g.nodes) : g.attrs[i].name = name}
    IN  IF hits = {} THEN NoneStr
        ELSE g.nodes[CHOOSE i \in hits : \A j \in hits : i <= j]

RECURSIVE RedirectToTarget(_, _, _, _)
RedirectToTarget(g, goto_id, target_id, incoming) ==
    IF incoming = <<>> THEN g
    ELSE RedirectToTarget(
             RemoveEdge(AddEdge(g, incoming[1].src, target_id,
                                PresentEdgeAttrs(incoming[1].a)),
                        incoming[1].src, goto_id),
             goto_id, target_id, Tail(incoming))

ResolveGoto(g, goto_id) ==
    LET target_name == NodeAttrs(g, goto_id).name
        target_id == FirstNodeNamed(g, target_name, goto_id)
    IN  IF target_name = NoneStr \/ target_name = "" THEN g
        ELSE IF target_id = NoneStr \/ target_id = "" THEN g
        ELSE RemoveNode(RedirectToTarget(g, goto_id, target_id, InEdges(g, goto_id)),
                        goto_id)

\* the goto nodes together with the decision points
GotoNodesWithDecisionPoints(g) ==
    SelectSeq(g.nodes, LAMBDA n : NodeAttrs(g, n).type \in {"goto", "decision_point"})

\* goto_nodes
GotoNodes(g) ==
    SelectSeq(g.nodes, LAMBDA n : NodeAttrs(g, n).type = "goto")

RECURSIVE SimplifyGotoNodesOver(_, _)
SimplifyGotoNodesOver(g, goto_nodes) ==
    IF goto_nodes = <<>> THEN g
    ELSE SimplifyGotoNodesOver(ResolveGoto(g, goto_nodes[1]), Tail(goto_nodes))

SimplifyGotoNodes(g) == SimplifyGotoNodesOver(g, GotoNodes(g))

\* _simplify_groups, first loop: group_id and group_heading of the members
RECURSIVE MarkMembers(_, _, _)
MarkMembers(g, group, members) ==
    IF members = <<>> THEN g
    ELSE MarkMembers(
             IF HasNodeG(g, members[1])
             THEN SetAttrs(g, members[1],
                           [group_id |-> group.id, group_heading |-> group.label])
             ELSE g,
             group, Tail(members))

RECURSIVE MarkGroups(_, _)
MarkGroups(g, groups) ==
    IF groups = <<>> THEN g
    ELSE MarkGroups(MarkMembers(g, groups[1], groups[1].contained_elements), Tail(groups))

GroupIds(d) == {d.groups[i].id : i \in 1..Len(d.groups)}

GroupOf(d, gid) == d.groups[CHOOSE i \in 1..Len(d.groups) : d.groups[i].id = gid]

\* the first member that is in the graph, whatever its type
StartNodeAnyType(g, members) ==
    LET ok == {i \in 1..Len(members) : HasNodeG(g, members[i])}
    IN  IF ok = {} THEN NoneStr
        ELSE members[CHOOSE i \in ok : \A j \in ok : i <= j]

\* start_node: the first member, in the iteration order of the set
\* contained_elements, that is in the graph and not typed help or hint
StartNode(g, members) ==
    LET ok == {i \in 1..Len(members) :
                  /\ HasNodeG(g, members[i])
                  /\ NodeAttrs(g, members[i]).type \notin {"help", "hint"}}
    IN  IF ok = {} THEN NoneStr
        ELSE members[CHOOSE i \in ok : \A j \in ok : i <= j]

\* second loop, over the edges the graph had when the loop started
RECURSIVE RedirectGroupEdges(_, _, _)
RedirectGroupEdges(g, d, snapshot) ==
    IF snapshot = <<>> THEN g
    ELSE LET e == snapshot[1]
             start_node == IF e.tgt \in GroupIds(d)
                           THEN StartNode(g, GroupOf(d, e.tgt).contained_elements)
                           ELSE NoneStr
             \* attrs is the live dictionary of the edge
             attrs == EdgeOf(g, e.src, e.tgt).a
         IN  RedirectGroupEdges(
                 IF e.tgt \in GroupIds(d) /\ start_node # NoneStr /\ start_node # ""
                 THEN RemoveEdge(
                          AddEdge(g, e.src, start_node,
                                  [id |-> attrs.id, label |-> LabelOr(attrs),
                                   original_target |-> e.tgt]),
                          e.src, e.tgt)
                 ELSE g,
                 d, Tail(snapshot))

SimplifyGroups(g, d) ==
    LET g1 == MarkGroups(g, d.groups)
    IN  RedirectGroupEdges(g1, d, Edges(g1))

\* _simplify_help_hint, one help/hint node: its label becomes the help_text
\* or hint_text of every target of its outgoing edges, then it is removed;
\* with no outgoing edge it is skipped
RECURSIVE SetTexts(_, _, _, _)
SetTexts(g, attr_name, label, out) ==
    IF out = <<>> THEN g
    ELSE SetTexts(
             SetAttrs(g, out[1].tgt,
                      IF attr_name = "help_text" THEN [help_text |-> label]
                      ELSE [hint_text |-> label]),
             attr_name, label, Tail(out))

AbsorbHelpHint(g, help_id) ==
    LET a == NodeAttrs(g, help_id)
        out == OutEdges(g, help_id)
    IN  IF out = <<>> THEN g
        ELSE RemoveNode(
                 SetTexts(g, IF a.type = "help" THEN "help_text" ELSE "hint_text",
                          LabelOr(a), out),
                 help_id)

HelpHintNodes(g) ==
    SelectSeq(g.nodes, LAMBDA n : NodeAttrs(g, n).type \in {"help", "hint"})

RECURSIVE SimplifyHelpHintOver(_, _)
SimplifyHelpHintOver(g, help_hint_nodes) ==
    IF help_hint_nodes = <<>> THEN g
    ELSE SimplifyHelpHintOver(AbsorbHelpHint(g, help_hint_nodes[1]), Tail(help_hint_nodes))

SimplifyHelpHint(g) == SimplifyHelpHintOver(g, HelpHintNodes(g))

----------------------------------------------------------------------------
(* DAGConverter._simplify_graph, phase 3: _combine_successive_notes *)

\* node n and its only successor can be fused
Fusible(g, n) ==
    /\ NodeAttrs(g, n).type = "note"
    /\ Cardinality(Successors(g, n)) = 1
    /\ LET succ == CHOOSE s \in Successors(g, n) : TRUE
       IN  /\ NodeAttrs(g, succ).type = "note"
           /\ Cardinality(Predecessors(g, succ)) = 1

RECURSIVE RedirectFromSuccessor(_, _, _)
RedirectFromSuccessor(g, node_id, out) ==
    IF out = <<>> THEN g
    ELSE RedirectFromSuccessor(
             AddEdge(g, node_id, out[1].tgt,
                     [id |-> node_id \o "_" \o out[1].tgt, label |-> LabelOr(out[1].a)]),
             node_id, Tail(out))

\* one round of the while loop: the first fusible node absorbs its successor
FuseNote(g, node_id) ==
    LET succ == CHOOSE s \in Successors(g, node_id) : TRUE
        g1 == SetAttrs(g, node_id,
                  [label |-> LabelOr(NodeAttrs(g, node_id)) \o "\n\n"
                             \o LabelOr(NodeAttrs(g, succ))])
    IN  RemoveNode(RedirectFromSuccessor(g1, node_id, OutEdges(g1, succ)), succ)

FirstFusible(g) ==
    LET hits == {i \in 1..Len(g.nodes) : Fusible(g, g.nodes[i])}
    IN  IF hits = {} THEN NoneStr
        ELSE g.nodes[CHOOSE i \in hits : \A j \in hits : i <= j]

\* a single round of the while loop, without the repetition
CombineSuccessiveNotesOnce(g) ==
    IF FirstFusible(g) = NoneStr THEN g ELSE FuseNote(g, FirstFusible(g))

RECURSIVE CombineSuccessiveNotes(_)
CombineSuccessiveNotes(g) ==
    IF FirstFusible(g) = NoneStr THEN g
    ELSE CombineSuccessiveNotes(FuseNote(g, FirstFusible(g)))

----------------------------------------------------------------------------
(* EdgeLogicCalculator *)

\* the characters of the labels the model draws decision labels from
Chars(s) ==
    CASE s = "Age > 5" -> <<"A", "g", "e", " ", ">", " ", "5">>
    []   s = "Age >= 5" -> <<"A", "g", "e", " ", ">", "=", " ", "5">>
    []   s = "Age = 5" -> <<"A", "g", "e", " ", "=", " ", "5">>
    []   s = "Age != 5" -> <<"A", "g", "e", " ", "!", "=", " ", "5">>
    []   s = "Age < 5" -> <<"A", "g", "e", " ", "<", " ", "5">>
    []   s = "Age <= 5" -> <<"A", "g", "e", " ", "<", "=", " ", "5">>
    []   s = "Age == 5" -> <<"A", "g", "e", " ", "=", "=", " ", "5">>
    []   s = "Age" -> <<"A", "g", "e">>
    []   s = "Age > 5.0" -> <<"A", "g", "e", " ", ">", " ", "5", ".", "0">>
    []   s = "Age > 2.5" -> <<"A", "g", "e", " ", ">", " ", "2", ".", "5">>
    []   s = "Age>10" -> <<"A", "g", "e", ">", "1", "0">>
    []   s = "Symptom [cough]" -> <<"S", "y", "m", "p", "t", "o", "m", " ", "[", "c", "o", "u", "g", "h", "]">>
    []   s = "Symptom [ cough ]" -> <<"S", "y", "m", "p", "t", "o", "m", " ", "[", " ", "c", "o", "u", "g", "h", " ", "]">>
    []   s = "Symptom" -> <<"S", "y", "m", "p", "t", "o", "m">>
    []   OTHER -> <<>>

DecisionLabels ==
    {"Age > 5", "Age >= 5", "Age = 5", "Age != 5", "Age < 5", "Age <= 5", "Age == 5", "Age", "Age > 5.0", "Age > 2.5", "Age>10", "Symptom [cough]", "Symptom [ cough ]", "Symptom"}

IsSpace(ch) == ch \in {" ", "\t"}
IsDigit(ch) == ch \in {"0", "1", "2", "3", "4", "5", "6", "7", "8", "9"}

DigitValue(ch) ==
    CASE ch = "0" -> 0 [] ch = "1" -> 1 [] ch = "2" -> 2 [] ch = "3" -> 3
    []   ch = "4" -> 4 [] ch = "5" -> 5 [] ch = "6" -> 6 [] ch = "7" -> 7
    []   ch = "8" -> 8 [] ch = "9" -> 9

\* "".join(chars)
RECURSIVE Join(_)
Join(c) == IF c = <<>> THEN "" ELSE c[1] \o Join(Tail(c))

\* the position after the run of spaces (of digits) that starts at i
RECURSIVE SpacesEnd(_, _)
SpacesEnd(c, i) == IF i <= Len(c) /\ IsSpace(c[i]) THEN SpacesEnd(c, i + 1) ELSE i

RECURSIVE DigitsEnd(_, _)
DigitsEnd(c, i) == IF i <= Len(c) /\ IsDigit(c[i]) THEN DigitsEnd(c, i + 1) ELSE i

\* EdgeLogic.to_dict(): a condition.  keys records which key names the
\* dictionary uses: node/operator/value or variable/operation/value.
Condition(keys, subject, op, value) ==
    <<[type |-> "condition", keys |-> keys, subject |-> subject, op |-> op, value |-> value]>>

NoLogic == <<>>

\* the values a condition compares with
VStr(s) == [str |-> s]
VBool(b) == [bool |-> b]
VInt(n) == [int |-> n]
VFloat(n, frac) == [whole |-> n, frac |-> frac]

\* _select_one_logic
SelectOneLogic(node_id, option, edge_label) ==
    IF Lower(edge_label) = "yes" THEN Condition("node", node_id, "=", option)
    ELSE IF Lower(edge_label) = "no" THEN Condition("node", node_id, "!=", option)
    ELSE NoLogic

\* _select_multiple_logic
SelectMultipleLogic(node_id, option) == Condition("node", node_id, "contains", option)

\* _flag_logic; edge_label is NoneStr when the argument is left out
FlagLogic(flag_label, edge_label) ==
    IF edge_label = NoneStr \/ edge_label = "" \/ Lower(edge_label) = "yes"
    THEN Condition("variable", "flags", "in", VStr(flag_label))
    ELSE IF Lower(edge_label) = "no"
    THEN Condition("variable", "flags", "not in", VStr(flag_label))
    ELSE NoLogic

\* calculate_edge_logic
CalculateEdgeLogic(node_label, node_type, node_id, edge_attrs) ==
    LET edge_label == LabelOr(edge_attrs)
        option == VStr(edge_attrs.option)
    IN  CASE node_type = "select_one" -> SelectOneLogic(node_id, option, edge_label)
        []   node_type = "select_multiple" -> SelectMultipleLogic(node_id, option)
        []   node_type = "flag" -> FlagLogic(node_label, NoneStr)
        []   OTHER -> NoLogic

\* _negate_operator
NegateOperator(operator) ==
    CASE operator = "=" -> "!="
    []   operator = "!=" -> "="
    []   operator = ">" -> "<="
    []   operator = "<" -> ">="
    []   operator = ">=" -> "<"
    []   operator = "<=" -> ">"
    []   OTHER -> operator

\* float(value_str), turned into an int when it is a whole number
RECURSIVE DigitsToNat(_)
DigitsToNat(ds) ==
    IF ds = <<>> THEN 0 ELSE 10 * DigitsToNat(SubSeq(ds, 1, Len(ds) - 1)) + DigitValue(Last(ds))

RECURSIVE StripTrailingZeros(_)
StripTrailingZeros(ds) ==
    IF ds # <<>> /\ Last(ds) = "0" THEN StripTrailingZeros(SubSeq(ds, 1, Len(ds) - 1)) ELSE ds

NumberValue(int_digits, frac_digits) ==
    IF StripTrailingZeros(frac_digits) = <<>>
    THEN VInt(DigitsToNat(int_digits))
    ELSE VFloat(DigitsToNat(int_digits), StripTrailingZeros(frac_digits))

\* the tail  (?:\s*)(\d+(?:\.\d+)?)  of the pattern, tried at position i
NumberAt(c, i) ==
    LET d0 == SpacesEnd(c, i)
        d1 == DigitsEnd(c, d0)
        f1 == IF d1 <= Len(c) /\ c[d1] = "." THEN DigitsEnd(c, d1 + 1) ELSE d1
    IN  IF d1 = d0 THEN [ok |-> FALSE]
        ELSE [ok |-> TRUE,
              value |-> NumberValue(SubSeq(c, d0, d1 - 1),
                                    IF f1 > d1 + 1 THEN SubSeq(c, d1 + 1, f1 - 1) ELSE <<>>)]

\* (?:\s*)([=<>!]=|[<>])(?:\s*)(\d+(?:\.\d+)?)  tried after a prefix of k
\* characters: the two-character operators first, then a bare < or >
ConditionAt(c, k) ==
    LET i == SpacesEnd(c, k + 1)
        two == /\ i + 1 <= Len(c)
               /\ c[i] \in {"=", "<", ">", "!"}
               /\ c[i + 1] = "="
        one == i <= Len(c) /\ c[i] \in {"<", ">"}
    IN  IF two /\ NumberAt(c, i + 2).ok
        THEN [ok |-> TRUE, operator |-> c[i] \o c[i + 1], value |-> NumberAt(c, i + 2).value]
        ELSE IF one /\ NumberAt(c, i + 1).ok
        THEN [ok |-> TRUE, operator |-> c[i], value |-> NumberAt(c, i + 1).value]
        ELSE [ok |-> FALSE]

\* _parse_numeric_condition: re.search with the lazy prefix (.*?) finds the
\* match with the shortest prefix
ParseNumericCondition(label) ==
    LET c == Chars(label)
        hits == {k \in 0..Len(c) : ConditionAt(c, k).ok}
    IN  IF hits = {} THEN [ok |-> FALSE]
        ELSE ConditionAt(c, CHOOSE k \in hits : \A j \in hits : k <= j)

\* _extract_option_from_label: re.search(r"\[(.*?)\]") and strip();
\* "" stands for no match
RECURSIVE StripChars(_)
StripChars(c) ==
    IF c # <<>> /\ IsSpace(c[1]) THEN StripChars(Tail(c))
    ELSE IF c # <<>> /\ IsSpace(Last(c)) THEN StripChars(SubSeq(c, 1, Len(c) - 1))
    ELSE c

ExtractOptionFromLabel(label) ==
    LET c == Chars(label)
        opens == {i \in 1..Len(c) : c[i] = "[" /\ \E j \in (i + 1)..Len(c) : c[j] = "]"}
    IN  IF opens = {} THEN ""
        ELSE LET i == CHOOSE x \in opens : \A y \in opens : x <= y
                 j == CHOOSE x \in (i + 1)..Len(c) :
                          c[x] = "]" /\ \A y \in (i + 1)..(x - 1) : c[y] # "]"
             IN  Join(StripChars(SubSeq(c, i + 1, j - 1)))

\* calculate_decision_point_logic
CalculateDecisionPointLogic(reference_type, decision_label, edge_label, reference_id) ==
    CASE reference_type = "flag" -> FlagLogic(decision_label, edge_label)
    []   reference_type = "select_one" ->
             SelectOneLogic(reference_id, VStr(decision_label), edge_label)
    []   reference_type = "select_multiple" ->
             IF ExtractOptionFromLabel(decision_label) # ""
             THEN SelectMultipleLogic(reference_id, VStr(ExtractOptionFromLabel(decision_label)))
             ELSE Condition("node", reference_id, "=", VBool(Lower(edge_label) = "yes"))
    []   reference_type = "numeric" ->
             LET parsed == ParseNumericCondition(decision_label)
             IN  IF parsed.ok
                 THEN Condition("variable", reference_id,
                                IF Lower(edge_label) = "no"
                                THEN NegateOperator(parsed.operator)
                                ELSE parsed.operator,
                                parsed.value)
                 ELSE Condition("variable", reference_id, "=",
                                VBool(Lower(edge_label) = "yes"))
    []   OTHER -> Condition("node", reference_id, "=", VBool(Lower(edge_label) = "yes"))

----------------------------------------------------------------------------
(* DAGConverter._calculate_edge_logic and DAGConverter._validate_graph *)

\* reference_id: the first node, in node order, that carries the decision
\* point's name and is not itself a decision point
ReferenceId(g, reference_name) ==
    LET hits == {i \in 1..Len(g.nodes) :
                    /\ g.attrs[i].name # NoneStr
                    /\ g.attrs[i].name = reference_name
                    /\ g.attrs[i].type # "decision_point"}
    IN  IF hits = {} THEN NoneStr
        ELSE g.nodes[CHOOSE i \in hits : \A j \in hits : i <= j]

ReferenceType(g, ext, reference_name, reference_id) ==
    IF reference_id # NoneStr /\ reference_id # ""
    THEN (IF NodeAttrs(g, reference_id).type = NoneStr THEN ""
          ELSE NodeAttrs(g, reference_id).type)
    ELSE IF reference_name \in ext.flags THEN "flag"
    ELSE IF reference_name \in ext.numerics THEN "numeric"
    ELSE "unknown"

\* the logic of one edge, <<>> when none is attached
EdgeLogicOf(g, ext, e) ==
    LET src == NodeAttrs(g, e.src)
        source_type == src.type
        source_label == LabelOr(src)
        reference_name == IF src.name = NoneStr THEN "" ELSE src.name
        reference_id == ReferenceId(g, reference_name)
    IN  IF source_type \in {"note", "numeric", "text", "help", "hint"} THEN NoLogic
        ELSE IF source_type = "decision_point"
        THEN CalculateDecisionPointLogic(
                 ReferenceType(g, ext, reference_name, reference_id),
                 source_label, LabelOr(e.a), reference_id)
        ELSE CalculateEdgeLogic(source_label, source_type, e.src, e.a)

RECURSIVE AttachLogic(_, _, _)
AttachLogic(g, ext, edges) ==
    IF edges = <<>> THEN g
    ELSE LET e == edges[1]
             logic == EdgeLogicOf(g, ext, e)
         IN  AttachLogic(
                 IF HasNodeG(g, e.src) /\ logic # NoLogic
                 THEN AddEdge(g, e.src, e.tgt, [logic |-> logic])
                 ELSE g,
                 ext, Tail(edges))

CalculateEdgeLogicPass(g, ext) == AttachLogic(g, ext, Edges(g))

\* the nodes of degree 0 and the edges with an endpoint outside the graph
IsolatedNodes(g) == SelectSeq(g.nodes, LAMBDA n : Degree(g, n) = 0)

DanglingEdges(g) ==
    SelectSeq(Edges(g), LAMBDA e : ~HasNodeG(g, e.src) \/ ~HasNodeG(g, e.tgt))

\* a validation that files a cycle at ERROR instead of CRITICAL
ValidateGraphCyclesAsError(g, lvl, res) ==
    LET hasValidator == lvl # NoValidator
        r0 == [results |-> res, raised |-> FALSE]
        r1 == IF ~IsDirectedAcyclicGraph(g)
              THEN IF hasValidator
                   THEN AddResult(res, lvl, "ERROR", "cycles", NoneStr, "Graph")
                   ELSE [results |-> res, raised |-> TRUE]
              ELSE r0
        r2 == IF ~r1.raised /\ IsolatedNodes(g) # <<>> /\ hasValidator
              THEN AddResult(r1.results, lvl, "WARNING", "isolated", NoneStr, "Graph")
              ELSE r1
        r3 == IF ~r2.raised /\ DanglingEdges(g) # <<>> /\ hasValidator
              THEN AddResult(r2.results, lvl, "ERROR", "dangling", NoneStr, "Graph")
              ELSE r2
    IN  r3

\* _validate_graph: the calls of add_result it makes, in order, until one
\* raises; with no collector bound a cycle raises ValueError directly
ValidateGraph(g, lvl, res) ==
    LET hasValidator == lvl # NoValidator
        r0 == [results |-> res, raised |-> FALSE]
        r1 == IF ~IsDirectedAcyclicGraph(g)
              THEN IF hasValidator
                   THEN AddResult(res, lvl, "CRITICAL", "cycles", NoneStr, "Graph")
                   ELSE [results |-> res, raised |-> TRUE]
              ELSE r0
        r2 == IF ~r1.raised /\ IsolatedNodes(g) # <<>> /\ hasValidator
              THEN AddResult(r1.results, lvl, "WARNING", "isolated", NoneStr, "Graph")
              ELSE r1
        r3 == IF ~r2.raised /\ DanglingEdges(g) # <<>> /\ hasValidator
              THEN AddResult(r2.results, lvl, "ERROR", "dangling", NoneStr, "Graph")
              ELSE r2
    IN  r3

----------------------------------------------------------------------------
(* DAGConverter.convert: one action per pass *)

NoProbe == [fn |-> "none"]

\* convert() run on a Diagram that was not read from a file
NoSource == [tree |-> "none", cells |-> <<>>]

PassTo(next, g) ==
    /\ pre' = graph
    /\ graph' = g
    /\ pc' = next
    /\ UNCHANGED <<diagram, externals, level, results, raised, probe, source>>

PassInitialConversion ==
    /\ pc = "initial_conversion"
    /\ PassTo("type_consolidation", InitialConversionOf(diagram))

PassTypeConsolidation ==
    /\ pc = "type_consolidation"
    /\ PassTo("select_options", TypeConsolidation(graph))

PassSelectOptions ==
    /\ pc = "select_options"
    /\ PassTo("goto_nodes", SimplifySelectOptions(graph))

PassGotoNodes ==
    /\ pc = "goto_nodes"
    /\ PassTo("groups", SimplifyGotoNodes(graph))

PassGroups ==
    /\ pc = "groups"
    /\ PassTo("help_hint", SimplifyGroups(graph, diagram))

PassHelpHint ==
    /\ pc = "help_hint"
    /\ PassTo("combine_notes", SimplifyHelpHint(graph))

PassCombineNotes ==
    /\ pc = "combine_notes"
    /\ PassTo("edge_logic", CombineSuccessiveNotes(graph))

PassEdgeLogic ==
    /\ pc = "edge_logic"
    /\ PassTo("validate", CalculateEdgeLogicPass(graph, externals))

PassValidateGraph ==
    /\ pc = "validate"
    /\ LET r == ValidateGraph(graph, level, results)
       IN  /\ results' = r.results
           /\ raised' = r.raised
           /\ pc' = IF r.raised THEN "raised" ELSE "returned"
    /\ pre' = graph
    /\ UNCHANGED <<diagram, externals, level, graph, probe, source>>

Next ==
    \/ PassInitialConversion
    \/ PassTypeConsolidation
    \/ PassSelectOptions
    \/ PassGotoNodes
    \/ PassGroups
    \/ PassHelpHint
    \/ PassCombineNotes
    \/ PassEdgeLogic
    \/ PassValidateGraph

----------------------------------------------------------------------------
(* The Diagrams convert() is run on *)

\* the most edges a Diagram of the model has
MaxEdges == 2

\* fill colours, by their channels
Green == <<100, 200, 100>>
Grey == <<128, 128, 128>>
Red == <<200, 50, 50>>

\* models.diagram.Node, SelectOption and Group
Node(id, shape, label, rounded, fill_color, name) ==
    [id |-> id, shape |-> shape, label |-> label, rounded |-> rounded,
     fill_color |-> fill_color, name |-> name, options |-> <<>>]

ListNode(id, label, rounded, options) ==
    [id |-> id, shape |-> "list", label |-> label, rounded |-> rounded,
     fill_color |-> <<>>, name |-> "", options |-> options]

SelectOption(id, label) == [id |-> id, label |-> label]

Group(id, label, members) == [id |-> id, label |-> label, contained_elements |-> members]

\* A cast: the nodes and groups of a Diagram, and the sources, targets and
\* labels its edges are drawn from.  contained_elements is a set in the
\* code; the sequence is the order in which the run iterates over it.
Cast(nodes, groups, sources, targets, labels) ==
    [nodes |-> nodes, groups |-> groups, sources |-> sources, targets |-> targets,
     labels |-> labels]

GotoCasts ==
    { Cast(<<Node("a", "rectangle", "A", FALSE, <<>>, "X"),
             Node("g", "offPageConnector", "G", FALSE, <<>>, "X")>>,
           <<>>, {"a", "g"}, {"a", "g"}, {""}),
      Cast(<<Node("a", "rectangle", "A", FALSE, <<>>, ""),
             Node("g", "offPageConnector", "G", FALSE, <<>>, "X"),
             Node("t", "hexagon", "T", FALSE, <<>>, "X")>>,
           <<>>, {"a", "g", "t"}, {"a", "g", "t"}, {""}),
      Cast(<<Node("a", "rectangle", "A", FALSE, <<>>, ""),
             Node("t", "hexagon", "T", FALSE, <<>>, "X"),
             Node("g", "offPageConnector", "G", FALSE, <<>>, "X")>>,
           <<>>, {"a", "g", "t"}, {"a", "g", "t"}, {""}),
      Cast(<<Node("a", "rectangle", "A", FALSE, <<>>, ""),
             Node("g", "offPageConnector", "G", FALSE, <<>>, "Y"),
             Node("t", "hexagon", "T", FALSE, <<>>, "X")>>,
           <<>>, {"a", "g", "t"}, {"a", "g", "t"}, {""}) }

DecisionCasts ==
    { Cast(<<Node("d", "rhombus", label, FALSE, <<>>, "X"),
             Node("t", "hexagon", "T", FALSE, <<>>, "X"),
             Node("g", "offPageConnector", "G", FALSE, <<>>, "X")>>,
           <<>>, {"d", "t"}, {"d", "g", "t"}, {"Yes", "No"})
      : label \in {"Age > 5", "Age = 5", "Age <= 5"} }
    \cup
    { Cast(<<Node("d", "rhombus", "Age != 5", FALSE, <<>>, "X"),
             Node("t", "ellipse", "T", FALSE, <<>>, "X"),
             Node("m", "rectangle", "M", FALSE, <<>>, "")>>,
           <<Group("G", "Heading", <<"m">>)>>,
           {"d", "t"}, {"G", "m", "t"}, {"Yes", "No"}),
      Cast(<<Node("d", "rhombus", "Age > 5", FALSE, <<>>, "X"),
             Node("t", "hexagon", "T", FALSE, <<>>, "X"),
             ListNode("s", "S", TRUE, <<SelectOption("o1", "first")>>)>>,
           <<>>, {"d", "o1"}, {"t", "o1"}, {"Yes", ""}) }

YesNoCasts ==
    { Cast(<<Node("q", "rectangle", "Q", FALSE, <<>>, ""),
             Node("a", "rectangle", "A", FALSE, <<>>, ""),
             Node("b", "rectangle", "B", FALSE, <<>>, "")>>,
           <<>>, {"q", "a", "b"}, {"q", "a", "b"}, {"Yes", "NO", ""}) }

SelectCasts ==
    { Cast(<<ListNode("s", "S", TRUE, <<SelectOption("o1", "first"), SelectOption("o2", "second")>>),
             Node("t", "rectangle", "T", FALSE, <<>>, ""),
             Node("u", "rectangle", "U", TRUE, <<>>, "")>>,
           <<>>, {"o1", "o2", "t"}, {"t", "u"}, {"", "Yes"}),
      Cast(<<ListNode("s", "S", FALSE, <<SelectOption("o1", "first"), SelectOption("o2", "second")>>),
             Node("t", "rectangle", "T", FALSE, <<>>, "")>>,
           <<>>, {"o1", "o2", "t"}, {"t", "s"}, {""}) }

GroupCasts ==
    { Cast(<<Node("a", "rectangle", "A", FALSE, <<>>, ""),
             Node("h", "rectangle", "H", FALSE, Green, ""),
             Node("m", "rectangle", "M", FALSE, Grey, "")>>,
           <<Group("G", "Heading", members)>>,
           {"a", "h", "m"}, {"G", "a", "m", "h"}, {""})
      : members \in {<<"h", "m">>, <<"m", "h">>} }

Casts == GotoCasts \cup DecisionCasts \cup YesNoCasts \cup SelectCasts \cup GroupCasts

EdgeChoices(cast) ==
    {[source |-> s, target |-> t, label |-> l] :
        s \in cast.sources, t \in cast.targets, l \in cast.labels}

EdgeSeqs(cast) == UNION {[1..n -> EdgeChoices(cast)] : n \in 0..MaxEdges}

\* models.diagram.Diagram: nodes and edges are dictionaries keyed by id,
\* here in insertion order
DiagramOf(cast, es) ==
    [nodes |-> cast.nodes,
     groups |-> cast.groups,
     edges |-> [i \in 1..Len(es) |->
                  [id |-> "e" \o ToString(i), source |-> es[i].source,
                   target |-> es[i].target, label |-> es[i].label]]]

\* DAGConverter.__init__
InitWith(casts, levels) ==
    /\ \E cast \in casts : \E es \in EdgeSeqs(cast) : diagram = DiagramOf(cast, es)
    /\ externals = [flags |-> {}, numerics |-> {}]
    /\ level \in levels
    /\ results = <<>>
    /\ raised = FALSE
    /\ graph = EmptyGraph
    /\ pre = EmptyGraph
    /\ pc = "initial_conversion"
    /\ probe = NoProbe
    /\ source = NoSource

Init == InitWith(Casts, Levels \cup {NoValidator})

Spec == Init /\ [][Next]_vars

\* Diagrams whose edges leave a decision point that references a
\* select_multiple node, or a flag node
LogicCasts ==
    { Cast(<<Node("d", "rhombus", label, FALSE, <<>>, "X"),
             [ListNode("s", "S", FALSE, <<SelectOption("o1", "cough")>>) EXCEPT !.name = "X"],
             Node("t", "rectangle", "T", FALSE, <<>>, "")>>,
           <<>>, {"d"}, {"t", "s"}, {"Yes", "No"})
      : label \in {"Symptom [cough]", "Symptom [ cough ]"} }
    \cup
    { Cast(<<Node("f", "rectangle", "F", TRUE, <<>>, ""),
             Node("a", "rectangle", "A", FALSE, <<>>, ""),
             Node("b", "rectangle", "B", FALSE, <<>>, "")>>,
           <<>>, {"f"}, {"a", "b"}, {"Yes", "No", "", "Maybe"}) }

InitLogic == InitWith(LogicCasts, Levels \cup {NoValidator})

SpecLogic == InitLogic /\ [][Next]_vars

\* Diagrams with a group of two members that are both notes.  The members
\* were inserted in the order of `inserted`; contained_elements is a Python
\* set of strings, which iterates in an order fixed by the hashes of the
\* strings (randomised per process), not by the order of insertion.
MemberOrderCasts ==
    { Cast(<<Node("a", "rectangle", "A", FALSE, <<>>, ""),
             Node("b", "rectangle", "B", FALSE, <<>>, ""),
             Node("c", "rectangle", "C", FALSE, <<>>, "")>>,
           <<[id |-> "G", label |-> "Heading", contained_elements |-> iteration,
              inserted |-> <<"b", "c">>]>>,
           {"a"}, {"G", "b", "c"}, {""})
      : iteration \in {<<"b", "c">>, <<"c", "b">>} }

InitGroups == InitWith(MemberOrderCasts, Levels \cup {NoValidator})

SpecGroups == InitGroups /\ [][Next]_vars

\* Diagrams around one rectangle r of every rounding and fill colour, with
\* edges to and from a plain rectangle b
Orange == <<200, 150, 50>>
Yellow == <<200, 200, 50>>
Blue == <<50, 50, 200>>

ClassifyCasts ==
    { Cast(<<Node("r", "rectangle", "R", rounded, fill, ""),
             Node("b", "rectangle", "B", FALSE, <<>>, "")>>,
           <<>>, {"r", "b"}, {"r", "b"}, {"Yes", "next"})
      : rounded \in BOOLEAN, fill \in {<<>>, Green, Grey, Red, Orange, Yellow, Blue} }

InitClassify == InitWith(ClassifyCasts, {"NORMAL", NoValidator})

SpecClassify == InitClassify /\ [][Next]_vars

\* Diagrams whose decision point d names no node of the diagram: the name
\* is a numeric external (N), a flag external (F) or unknown (Z)
OracleCasts ==
    { Cast(<<Node("d", "rhombus", label, FALSE, <<>>, name),
             Node("t", "rectangle", "T", FALSE, <<>>, ""),
             Node("u", "rectangle", "U", FALSE, <<>>, "")>>,
           <<>>, {"d"}, {"t", "u"}, {"Yes", "No"})
      : label \in {"Age > 5", "Age"}, name \in {"N", "F", "Z"} }

\* DAGConverter.__init__ on a Diagram whose allowed_externals were loaded
InitOracle ==
    /\ \E cast \in OracleCasts : \E es \in EdgeSeqs(cast) : diagram = DiagramOf(cast, es)
    /\ externals = [flags |-> {"F"}, numerics |-> {"N"}]
    /\ level \in {"NORMAL", NoValidator}
    /\ results = <<>>
    /\ raised = FALSE
    /\ graph = EmptyGraph
    /\ pre = EmptyGraph
    /\ pc = "initial_conversion"
    /\ probe = NoProbe
    /\ source = NoSource

SpecOracle == InitOracle /\ [][Next]_vars

\* Diagrams with a select_one list s whose edges leave its option o1 or the
\* list itself
SelectOneCasts ==
    { Cast(<<ListNode("s", "S", TRUE, <<SelectOption("o1", "first")>>),
             Node("t", "hexagon", "T", FALSE, <<>>, ""),
             Node("u", "hexagon", "U", FALSE, <<>>, "")>>,
           <<>>, {"s", "o1"}, {"t", "u"}, {"Yes", "NO", ""}) }

InitSelectOne == InitWith(SelectOneCasts, {"NORMAL", NoValidator})

SpecSelectOne == InitSelectOne /\ [][Next]_vars

----------------------------------------------------------------------------
(* ValidationCollector on its own: any sequence of add_result calls *)

\* the most results collected
MaxResults == 3

EmptyDiagram == [nodes |-> <<>>, groups |-> <<>>, edges |-> <<>>]

InitCollector ==
    /\ diagram = EmptyDiagram
    /\ externals = [flags |-> {}, numerics |-> {}]
    /\ level \in Levels
    /\ results = <<>>
    /\ raised = FALSE
    /\ graph = EmptyGraph
    /\ pre = EmptyGraph
    /\ pc = "collector"
    /\ probe = NoProbe
    /\ source = NoSource

CallAddResult ==
    /\ pc = "collector"
    /\ Len(results) < MaxResults
    /\ \E sev \in Severities, etype \in {"Graph", "Edge"} :
          LET r == AddResult(results, level, sev, "issue", NoneStr, etype)
          IN  /\ results' = r.results
              /\ raised' = r.raised
    /\ UNCHANGED <<diagram, externals, level, graph, pre, pc, probe, source>>

NextCollector == CallAddResult

SpecCollector == InitCollector /\ [][NextCollector]_vars

----------------------------------------------------------------------------
(* DAGConverter._is_color_in_range on its own: one call with a colour *)

\* the channel values of the colours tested
Channels == {0, 100, 110, 118, 120, 128, 138, 139, 150, 255}

InitColor ==
    /\ diagram = EmptyDiagram
    /\ externals = [flags |-> {}, numerics |-> {}]
    /\ level = NoValidator
    /\ results = <<>>
    /\ raised = FALSE
    /\ graph = EmptyGraph
    /\ pre = EmptyGraph
    /\ pc = "is_color_in_range"
    /\ \E r \in Channels, g \in Channels, b \in Channels :
           probe = [fn |-> "is_color_in_range", color |-> <<r, g, b>>,
                    color_name |-> "grey", returned |-> NoneStr]
    /\ source = NoSource

CallIsColorInRange ==
    /\ pc = "is_color_in_range"
    /\ probe' = [probe EXCEPT !.returned = IsColorInRange(probe.color, probe.color_name)]
    /\ pc' = "returned"
    /\ UNCHANGED <<diagram, externals, level, results, raised, graph, pre, source>>

NextColor == CallIsColorInRange

SpecColor == InitColor /\ [][NextColor]_vars

----------------------------------------------------------------------------
(* Diagram.validate_dag on its own: one call on a Diagram *)

\* get_entry_points: the nodes that no edge targets, in node order
GetEntryPoints(d) ==
    LET incoming_edges == {d.edges[i].target : i \in 1..Len(d.edges)}
    IN  SelectSeq([i \in 1..Len(d.nodes) |-> d.nodes[i].id],
                  LAMBDA node_id : node_id \notin incoming_edges)

\* validate_dag.  dfs marks the entry point and then walks self.edges,
\* reading edge.source_id of the first edge; Edge has the fields source and
\* target and no source_id, so that read raises AttributeError.  The call
\* gets as far as a result only when there is no entry point to start from
\* or no edge to walk.
ValidateDag(d) ==
    IF GetEntryPoints(d) = <<>> THEN "True"
    ELSE IF d.edges = <<>> THEN "True"
    ELSE "AttributeError"

DagCasts ==
    { Cast(<<Node("a", "rectangle", "A", FALSE, <<>>, ""),
             Node("b", "rectangle", "B", FALSE, <<>>, "")>>,
           <<>>, {"a", "b"}, {"a", "b"}, {""}),
      Cast(<<Node("a", "rectangle", "A", FALSE, <<>>, ""),
             Node("b", "rectangle", "B", FALSE, <<>>, ""),
             Node("c", "rectangle", "C", FALSE, <<>>, "")>>,
           <<>>, {"a", "b", "c"}, {"a", "b", "c"}, {""}) }

InitDag ==
    /\ \E cast \in DagCasts : \E es \in EdgeSeqs(cast) : diagram = DiagramOf(cast, es)
    /\ externals = [flags |-> {}, numerics |-> {}]
    /\ level = NoValidator
    /\ results = <<>>
    /\ raised = FALSE
    /\ graph = EmptyGraph
    /\ pre = EmptyGraph
    /\ pc = "validate_dag"
    /\ probe = [fn |-> "validate_dag", returned |-> NoneStr]
    /\ source = NoSource

CallValidateDag ==
    /\ pc = "validate_dag"
    /\ probe' = [probe EXCEPT !.returned = ValidateDag(diagram)]
    /\ pc' = IF ValidateDag(diagram) = "AttributeError" THEN "raised" ELSE "returned"
    /\ UNCHANGED <<diagram, externals, level, results, raised, graph, pre, source>>

NextDag == CallValidateDag

SpecDag == InitDag /\ [][NextDag]_vars

----------------------------------------------------------------------------
(* ExternalReferences (business_rules/external_flags.py) on its own: any
   sequence of add_numeric_reference, add_flag_reference, remove_reference *)

\* the reference names of the calls
ReferenceNames == {"F", "N", "Z"}

IsNumericReference(ext, reference_name) == reference_name \in ext.numerics

IsFlagReference(ext, reference_name) == reference_name \in ext.flags

IsValidReference(ext, reference_name) ==
    reference_name \in ext.numerics \/ reference_name \in ext.flags

\* remove_reference: the registry it leaves and the value it returns
RemoveReference(ext, reference_name) ==
    IF reference_name \in ext.numerics
    THEN [ext |-> [ext EXCEPT !.numerics = @ \ {reference_name}], returned |-> TRUE]
    ELSE IF reference_name \in ext.flags
    THEN [ext |-> [ext EXCEPT !.flags = @ \ {reference_name}], returned |-> TRUE]
    ELSE [ext |-> ext, returned |-> FALSE]

\* __init__ and _load_config: the sets of externals.json, empty sets when
\* the file is missing or unreadable
InitRegistry ==
    /\ diagram = EmptyDiagram
    /\ externals \in {[flags |-> {}, numerics |-> {}], [flags |-> {"F"}, numerics |-> {"N"}]}
    /\ level = NoValidator
    /\ results = <<>>
    /\ raised = FALSE
    /\ graph = EmptyGraph
    /\ pre = EmptyGraph
    /\ pc = "registry"
    /\ probe = NoProbe
    /\ source = NoSource

\* probe records the last call: its name, argument, return value and the
\* registry before it
Called(fn, reference_name, returned) ==
    probe' = [fn |-> fn, reference_name |-> reference_name, returned |-> returned,
              before |-> externals]

CallAddNumericReference ==
    /\ pc = "registry"
    /\ \E n \in ReferenceNames :
          /\ externals' = [externals EXCEPT !.numerics = @ \cup {n}]
          /\ Called("add_numeric_reference", n, NoneStr)
    /\ UNCHANGED <<diagram, level, results, raised, graph, pre, pc, source>>

CallAddFlagReference ==
    /\ pc = "registry"
    /\ \E n \in ReferenceNames :
          /\ externals' = [externals EXCEPT !.flags = @ \cup {n}]
          /\ Called("add_flag_reference", n, NoneStr)
    /\ UNCHANGED <<diagram, level, results, raised, graph, pre, pc, source>>

CallRemoveReference ==
    /\ pc = "registry"
    /\ \E n \in ReferenceNames :
          /\ externals' = RemoveReference(externals, n).ext
          /\ Called("remove_reference", n, RemoveReference(externals, n).returned)
    /\ UNCHANGED <<diagram, level, results, raised, graph, pre, pc, source>>

NextRegistry ==
    \/ CallAddNumericReference
    \/ CallAddFlagReference
    \/ CallRemoveReference

SpecRegistry == InitRegistry /\ [][NextRegistry]_vars

----------------------------------------------------------------------------
(* DrawIoParser (core/parser.py): the cells of the file *)

\* html.unescape on the label vocabulary of the model
HtmlUnescape(s) ==
    CASE s = "Fever &amp; cough" -> "Fever & cough"
    []   s = "T &lt; 36" -> "T < 36"
    []   OTHER -> s

\* _parse_style_string: the style string is kept as its items, split at ";";
\* an item is <<key, value>> for "key=value" and <<key>> for a bare flag, and
\* a later item replaces an earlier one of the same key
StyleHas(style, key) == \E i \in 1..Len(style) : style[i][1] = key

StyleGet(style, key, default) ==
    IF StyleHas(style, key)
    THEN LET i == CHOOSE k \in 1..Len(style) :
                      /\ style[k][1] = key
                      /\ \A j \in (k + 1)..Len(style) : style[j][1] # key
         IN  IF Len(style[i]) = 2 THEN style[i][2] ELSE ""
    ELSE default

IsGroup(cell) ==
    /\ cell.vertex = "1"
    /\ StyleHas(cell.style, "swimlane")
    /\ ~StyleHas(cell.style, "childLayout")

IsListNode(cell) ==
    /\ cell.vertex = "1"
    /\ StyleHas(cell.style, "swimlane")
    /\ StyleGet(cell.style, "childLayout", NoneStr) = "stackLayout"

IsNode(cell) == cell.vertex = "1" /\ ~IsGroup(cell) /\ ~IsListNode(cell)

IsEdge(cell) == cell.edge = "1"

\* _extract_base_attributes: the wrapper's id and label when the cell is
\* wrapped in a UserObject/object element, the cell's own otherwise
ExtractBaseAttributes(cell) ==
    IF cell.wrapped
    THEN [id |-> cell.wrapper_id,
          label |-> HtmlUnescape(IF cell.wrapper_label = NoneStr THEN "" ELSE cell.wrapper_label)]
    ELSE [id |-> cell.id,
          label |-> HtmlUnescape(IF cell.value = NoneStr THEN "" ELSE cell.value)]

\* _extract_metadata: ElementMetadata(name) of the wrapper, or None; every
\* reader tests "metadata and metadata.name", so None is kept as a None name
ExtractMetadata(cell) == [name |-> IF cell.wrapped THEN cell.name ELSE NoneStr]

\* ShapeType, in the order of the enumeration
ShapeTypes ==
    <<"rectangle", "hexagon", "ellipse", "rhombus", "callout", "offPageConnector", "list">>

DetermineShape(cell) ==
    LET hits == {i \in 1..Len(ShapeTypes) :
                    /\ ShapeTypes[i] \notin {"list", "rectangle"}
                    /\ \/ StyleHas(cell.style, ShapeTypes[i])
                       \/ StyleGet(cell.style, "shape", NoneStr) = ShapeTypes[i]}
    IN  IF hits = {} THEN "rectangle"
        ELSE ShapeTypes[CHOOSE i \in hits : \A j \in hits : i <= j]

\* a cell without an mxGeometry child
NoGeometry == [x |-> NoneStr]

\* a parser that gives every element the default Geometry
CreateGeometryDefault(cell) == [x |-> 0, y |-> 0, width |-> 0, height |-> 0]

\* _create_geometry, and Geometry.validate_positive_dimensions
CreateGeometry(cell) ==
    IF cell.geometry = NoGeometry
    THEN [x |-> 0, y |-> 0, width |-> 0, height |-> 0]
    ELSE cell.geometry

GeometryValid(cell) ==
    cell.geometry = NoGeometry \/ (cell.geometry.width >= 0 /\ cell.geometry.height >= 0)

\* BaseElement.validate_id_format
ValidateIdFormat(id) == id # NoneStr /\ id # ""

\* the constructors of Group, of a list Node and of SelectOption accept the
\* cell; FALSE stands for the ValidationError they raise
ElementValid(cell) == ValidateIdFormat(ExtractBaseAttributes(cell).id) /\ GeometryValid(cell)

\* _create_group
CreateGroup(cell) ==
    [id |-> ExtractBaseAttributes(cell).id,
     label |-> ExtractBaseAttributes(cell).label,
     contained_elements |-> <<>>]

\* Node.validate_list_attributes: a rhombus must have a name
ValidateListAttributes(shape, metadata) ==
    shape = "rhombus" => (metadata.name # NoneStr /\ metadata.name # "")

\* the Node a cell gives; fill colours are kept as their channels
NodeOfCell(cell, shape) ==
    [id |-> ExtractBaseAttributes(cell).id,
     shape |-> shape,
     label |-> ExtractBaseAttributes(cell).label,
     rounded |-> StyleGet(cell.style, "rounded", "0") = "1",
     fill_color |-> StyleGet(cell.style, "fillColor", <<>>),
     name |-> IF ExtractMetadata(cell).name = NoneStr THEN "" ELSE ExtractMetadata(cell).name,
     options |-> <<>>,
     geometry |-> CreateGeometry(cell)]

\* _create_list_node
CreateListNode(cell) == NodeOfCell(cell, "list")

\* _create_node
NodeValid(cell) ==
    /\ ValidateIdFormat(ExtractBaseAttributes(cell).id)
    /\ GeometryValid(cell)
    /\ ValidateListAttributes(DetermineShape(cell), ExtractMetadata(cell))

CreateNode(cell) == NodeOfCell(cell, DetermineShape(cell))

\* _create_select_option
CreateSelectOption(cell) ==
    [id |-> ExtractBaseAttributes(cell).id,
     label |-> ExtractBaseAttributes(cell).label,
     y |-> CreateGeometry(cell).y]

\* dictionary assignment d[rec.id] = rec, the dictionary kept in insertion order
SetItem(items, rec) ==
    IF \E i \in 1..Len(items) : items[i].id = rec.id
    THEN [i \in 1..Len(items) |-> IF items[i].id = rec.id THEN rec ELSE items[i]]
    ELSE Append(items, rec)

HasItem(items, id) == \E i \in 1..Len(items) : items[i].id = id

Item(items, id) == items[CHOOSE i \in 1..Len(items) : items[i].id = id]

\* groups[parent_id].contained_elements.add(node_id), when the parent is a group
AddToParentGroup(groups, parent_id, node_id) ==
    [i \in 1..Len(groups) |->
        IF groups[i].id = parent_id /\ node_id \notin SeqToSet(groups[i].contained_elements)
        THEN [groups[i] EXCEPT !.contained_elements = Append(@, node_id)]
        ELSE groups[i]]

\* _add_option_to_list: append, then a stable sort by geometry.y of a list
\* that was sorted before
AddOptionToList(options, opt) ==
    LET before == {i \in 1..Len(options) : options[i].y <= opt.y}
        k == Cardinality(before)
    IN  SubSeq(options, 1, k) \o <<opt>> \o SubSeq(options, k + 1, Len(options))

----------------------------------------------------------------------------
(* DrawIoParser.parse_xml: the four passes over the cells, each from cell  *)
(* i on.  A pass gives the Diagram it has filled so far and whether an     *)
(* exception left it.                                                      *)

RECURSIVE ParseGroups(_, _, _)
ParseGroups(d, cells, i) ==
    IF i > Len(cells) THEN [diagram |-> d, failed |-> FALSE]
    ELSE IF ~IsGroup(cells[i]) THEN ParseGroups(d, cells, i + 1)
    ELSE IF ~ElementValid(cells[i]) THEN [diagram |-> d, failed |-> TRUE]
    ELSE ParseGroups([d EXCEPT !.groups = SetItem(@, CreateGroup(cells[i]))],
                         cells, i + 1)

RECURSIVE ParseListNodes(_, _, _)
ParseListNodes(d, cells, i) ==
    IF i > Len(cells) THEN [diagram |-> d, failed |-> FALSE]
    ELSE IF ~IsListNode(cells[i]) THEN ParseListNodes(d, cells, i + 1)
    ELSE IF ~ElementValid(cells[i]) THEN [diagram |-> d, failed |-> TRUE]
    ELSE LET node == CreateListNode(cells[i])
         IN  ParseListNodes(
                 [d EXCEPT !.nodes = SetItem(@, node),
                           !.groups = AddToParentGroup(@, cells[i].parent, node.id)],
                 cells, i + 1)

RECURSIVE ParseNodes(_, _, _)
ParseNodes(d, cells, i) ==
    IF i > Len(cells) THEN [diagram |-> d, failed |-> FALSE]
    ELSE IF ~IsNode(cells[i]) THEN ParseNodes(d, cells, i + 1)
    ELSE IF HasItem(d.nodes, ExtractBaseAttributes(cells[i]).id)
         THEN ParseNodes(d, cells, i + 1)
    ELSE IF HasItem(d.nodes, cells[i].parent) /\ Item(d.nodes, cells[i].parent).shape = "list"
         THEN (IF ~ElementValid(cells[i]) THEN [diagram |-> d, failed |-> TRUE]
               ELSE LET parent == Item(d.nodes, cells[i].parent)
                        opts == AddOptionToList(parent.options, CreateSelectOption(cells[i]))
                    IN  ParseNodes(
                            [d EXCEPT !.nodes = SetItem(@, [parent EXCEPT !.options = opts])],
                            cells, i + 1))
    ELSE IF ~NodeValid(cells[i]) THEN [diagram |-> d, failed |-> TRUE]
    ELSE LET node == CreateNode(cells[i])
         IN  ParseNodes(
                 [d EXCEPT !.nodes = SetItem(@, node),
                           !.groups = AddToParentGroup(@, cells[i].parent, node.id)],
                 cells, i + 1)

\* Edge.validate_endpoints: the type of the error it raises, "" when it passes
ValidateEndpoints(src, tgt) ==
    LET no_source == src = NoneStr \/ src = ""
        no_target == tgt = NoneStr \/ tgt = ""
    IN  IF no_source /\ ~no_target THEN "source-missing"
        ELSE IF ~no_source /\ no_target THEN "target-missing"
        ELSE IF no_source /\ no_target THEN "ghost-edge"
        ELSE ""

\* the type of the error the Edge constructor raises: field validation runs
\* before the model validator
EdgeError(cell) ==
    IF ~ValidateIdFormat(ExtractBaseAttributes(cell).id) THEN "value_error"
    ELSE ValidateEndpoints(cell.source, cell.target)

\* a handler that reports a ghost edge as it reports a missing endpoint
HandleEdgeErrorGhostAsError(error_type, edge_id, lvl, res) ==
    IF error_type \in {"ghost-edge", "target-missing", "source-missing"}
    THEN AddResult(res, lvl, "ERROR", "Edge has a missing endpoint", edge_id, "Edge")
    ELSE [results |-> res, raised |-> FALSE]

\* EdgeValidationErrorHandler.handle_edge_error
HandleEdgeError(error_type, edge_id, lvl, res) ==
    IF error_type = "ghost-edge"
    THEN AddResult(res, lvl, "WARNING", "Ghost edge found", edge_id, "Edge")
    ELSE IF error_type = "target-missing"
    THEN AddResult(res, lvl, "ERROR", "Edge has no target", edge_id, "Edge")
    ELSE IF error_type = "source-missing"
    THEN AddResult(res, lvl, "ERROR", "Edge has no source", edge_id, "Edge")
    ELSE [results |-> res, raised |-> FALSE]

\* _create_edge: the Edge, or None after the error was handled
CreateEdge(cell) ==
    [id |-> ExtractBaseAttributes(cell).id,
     source |-> cell.source,
     target |-> cell.target,
     label |-> ExtractBaseAttributes(cell).label]

RECURSIVE ParseEdges(_, _, _, _, _)
ParseEdges(d, cells, i, lvl, res) ==
    IF i > Len(cells) THEN [diagram |-> d, results |-> res, failed |-> FALSE]
    ELSE IF ~IsEdge(cells[i]) THEN ParseEdges(d, cells, i + 1, lvl, res)
    ELSE IF EdgeError(cells[i]) = ""
         THEN ParseEdges([d EXCEPT !.edges = SetItem(@, CreateEdge(cells[i]))],
                             cells, i + 1, lvl, res)
    ELSE LET r == HandleEdgeError(EdgeError(cells[i]), ExtractBaseAttributes(cells[i]).id,
                                  lvl, res)
         IN  IF r.raised THEN [diagram |-> d, results |-> r.results, failed |-> TRUE]
             ELSE ParseEdges(d, cells, i + 1, lvl, r.results)

----------------------------------------------------------------------------
(* Diagram.validate_structure (models/diagram.py) *)

\* ExternalReferences.get_all_references
GetAllReferences(ext) == ext.numerics \cup ext.flags

ValidReferralNodes(d, ext) ==
    {d.nodes[i].name : i \in {k \in 1..Len(d.nodes) :
                                 d.nodes[k].name # "" /\ d.nodes[k].shape # "rhombus"}}
    \cup GetAllReferences(ext)

ValidSourceIds(d) ==
    {d.nodes[i].id : i \in {k \in 1..Len(d.nodes) : d.nodes[k].shape # "list"}}
    \cup UNION {{d.nodes[i].options[j].id : j \in 1..Len(d.nodes[i].options)} :
                   i \in {k \in 1..Len(d.nodes) : d.nodes[k].shape = "list"}}

Issue(msg, eid, etype) == [message |-> msg, element_id |-> eid, element_type |-> etype]

\* the issue of one edge, one group, one list node, one rhombus: a sequence
\* of none or one
EdgeIssues(d, e) ==
    IF e.source = NoneStr \/ e.source = "" THEN <<>>
    ELSE IF \E i \in 1..Len(d.groups) : d.groups[i].id = e.source
    THEN <<Issue("invalid source (a group)", e.id, "Edge")>>
    ELSE IF e.source \notin ValidSourceIds(d)
    THEN <<Issue("invalid source", e.id, "Edge")>>
    ELSE <<>>

GroupIssues(g) ==
    IF g.contained_elements = <<>>
    THEN <<Issue("group must contain at least one element", g.id, "Group")>>
    ELSE <<>>

ListIssues(n) ==
    IF n.shape = "list" /\ n.options = <<>>
    THEN <<Issue("list node must have at least one option", n.id, "Node")>>
    ELSE <<>>

\* "elif not node.metadata.name not in valid_referral_nodes" is
\* not (name not in valid_referral_nodes)
RhombusIssues(d, ext, n) ==
    IF n.shape # "rhombus" THEN <<>>
    ELSE IF n.name = ""
    THEN <<Issue("rhombus must reference another node", n.id, "Node")>>
    ELSE IF ~(n.name \notin ValidReferralNodes(d, ext))
    THEN <<Issue("rhombus references non-existent node", n.id, "Node")>>
    ELSE <<>>

RECURSIVE Concat(_)
Concat(seqs) == IF seqs = <<>> THEN <<>> ELSE seqs[1] \o Concat(Tail(seqs))

\* the issues in the order validate_structure meets them
StructureIssues(d, ext) ==
    Concat([i \in 1..Len(d.edges) |-> EdgeIssues(d, d.edges[i])])
    \o Concat([i \in 1..Len(d.groups) |-> GroupIssues(d.groups[i])])
    \o Concat([i \in 1..Len(d.nodes) |-> ListIssues(d.nodes[i])])
    \o Concat([i \in 1..Len(d.nodes) |-> RhombusIssues(d, ext, d.nodes[i])])

\* every issue is an ERROR: added to the bound collector, which may raise,
\* or raised at once when no collector is bound
RECURSIVE ReportIssues(_, _, _)
ReportIssues(issues, lvl, res) ==
    IF issues = <<>> THEN [results |-> res, raised |-> FALSE]
    ELSE IF lvl = NoValidator THEN [results |-> res, raised |-> TRUE]
    ELSE LET r == AddResult(res, lvl, "ERROR", issues[1].message, issues[1].element_id,
                            issues[1].element_type)
         IN  IF r.raised THEN r ELSE ReportIssues(Tail(issues), lvl, r.results)

ValidateStructure(d, ext, lvl, res) == ReportIssues(StructureIssues(d, ext), lvl, res)

----------------------------------------------------------------------------
(* DrawIoParser.parse_file, one action per step, and the hand-over of the  *)
(* Diagram it returns to DAGConverter                                      *)

\* the except clauses of parse_file: a CRITICAL result, which raises in
\* STRICT and NORMAL mode.  In LENIENT mode the clause goes on to use a
\* local that was never assigned: report_path when ET.parse failed, diagram
\* when parse_xml failed.
ExceptClause(res, element_type) ==
    LET r == AddResult(res, level, "CRITICAL", "parsing failed", NoneStr, element_type)
    IN  /\ results' = r.results
        /\ raised' = r.raised
        /\ pc' = IF r.raised THEN "raised" ELSE "unbound_local_error"

\* ET.parse(filepath)
PassParseTree ==
    /\ pc = "parse_file"
    /\ IF source.tree = "ok"
       THEN pc' = "parse_groups" /\ UNCHANGED <<results, raised>>
       ELSE ExceptClause(results, IF source.tree = "malformed" THEN "XML" ELSE "Parsing")
    /\ UNCHANGED <<diagram, externals, level, graph, pre, probe, source>>

PassParseGroups ==
    /\ pc = "parse_groups"
    /\ LET r == ParseGroups(diagram, source.cells, 1)
       IN  /\ diagram' = r.diagram
           /\ IF r.failed THEN ExceptClause(results, "Parsing")
              ELSE pc' = "parse_list_nodes" /\ UNCHANGED <<results, raised>>
    /\ UNCHANGED <<externals, level, graph, pre, probe, source>>

PassParseListNodes ==
    /\ pc = "parse_list_nodes"
    /\ LET r == ParseListNodes(diagram, source.cells, 1)
       IN  /\ diagram' = r.diagram
           /\ IF r.failed THEN ExceptClause(results, "Parsing")
              ELSE pc' = "parse_nodes" /\ UNCHANGED <<results, raised>>
    /\ UNCHANGED <<externals, level, graph, pre, probe, source>>

PassParseNodes ==
    /\ pc = "parse_nodes"
    /\ LET r == ParseNodes(diagram, source.cells, 1)
       IN  /\ diagram' = r.diagram
           /\ IF r.failed THEN ExceptClause(results, "Parsing")
              ELSE pc' = "parse_edges" /\ UNCHANGED <<results, raised>>
    /\ UNCHANGED <<externals, level, graph, pre, probe, source>>

PassParseEdges ==
    /\ pc = "parse_edges"
    /\ LET r == ParseEdges(diagram, source.cells, 1, level, results)
       IN  /\ diagram' = r.diagram
           /\ IF r.failed THEN ExceptClause(r.results, "Parsing")
              ELSE /\ pc' = "validate_structure"
                   /\ results' = r.results
                   /\ UNCHANGED raised
    /\ UNCHANGED <<externals, level, graph, pre, probe, source>>

\* Diagram.model_validate(self.diagram), and the return of parse_file
PassValidateStructure ==
    /\ pc = "validate_structure"
    /\ LET r == ValidateStructure(diagram, externals, level, results)
       IN  IF r.raised THEN ExceptClause(r.results, "Parsing")
           ELSE /\ pc' = "parsed"
                /\ results' = r.results
                /\ UNCHANGED raised
    /\ UNCHANGED <<diagram, externals, level, graph, pre, probe, source>>

\* DAGConverter(diagram, validator) on what parse_file returned
PassToConverter ==
    /\ pc = "parsed"
    /\ pc' = "initial_conversion"
    /\ UNCHANGED <<diagram, externals, level, results, raised, graph, pre, probe, source>>

NextIngest ==
    \/ PassParseTree
    \/ PassParseGroups
    \/ PassParseListNodes
    \/ PassParseNodes
    \/ PassParseEdges
    \/ PassValidateStructure
    \/ PassToConverter
    \/ Next

----------------------------------------------------------------------------
(* The files parse_file is run on *)

Geometry(x, y, width, height) == [x |-> x, y |-> y, width |-> width, height |-> height]

\* an mxCell with vertex="1"
VertexCell(id, style, parent, value, geometry) ==
    [id |-> id, value |-> value, vertex |-> "1", edge |-> NoneStr, style |-> style,
     parent |-> parent, source |-> NoneStr, target |-> NoneStr, geometry |-> geometry,
     wrapped |-> FALSE, wrapper_id |-> NoneStr, wrapper_label |-> NoneStr, name |-> NoneStr]

\* an mxCell with edge="1"
EdgeCell(id, src, tgt, value) ==
    [id |-> id, value |-> value, vertex |-> NoneStr, edge |-> "1", style |-> <<>>,
     parent |-> "1", source |-> src, target |-> tgt, geometry |-> NoGeometry,
     wrapped |-> FALSE, wrapper_id |-> NoneStr, wrapper_label |-> NoneStr, name |-> NoneStr]

\* the cell inside a UserObject/object element, which carries id, label and name
Wrapped(cell, name) ==
    [cell EXCEPT !.wrapped = TRUE, !.wrapper_id = cell.id, !.wrapper_label = cell.value,
                 !.name = name, !.id = NoneStr, !.value = NoneStr]

\* the two cells every draw.io page starts with
RootCells ==
    << [VertexCell("0", <<>>, NoneStr, NoneStr, NoGeometry) EXCEPT !.vertex = NoneStr],
       [VertexCell("1", <<>>, "0", NoneStr, NoGeometry) EXCEPT !.vertex = NoneStr] >>

PlainStyle == << <<"rounded", "0">>, <<"whiteSpace", "wrap">>, <<"html", "1">>, <<"">> >>
RhombusStyle == << <<"rhombus">>, <<"whiteSpace", "wrap">>, <<"">> >>
HexagonStyle == << <<"shape", "hexagon">>, <<"perimeter", "hexagonPerimeter2">>, <<"">> >>
GroupStyle == << <<"swimlane">>, <<"whiteSpace", "wrap">> >>
ListStyle == << <<"swimlane">>, <<"childLayout", "stackLayout">>, <<"rounded", "1">> >>
OptionStyle == << <<"text">>, <<"align", "left">> >>

\* A file cast: the vertex cells of a file, and the sources, targets and
\* labels its edge cells are drawn from
FileCast(cells, sources, targets, labels) ==
    [cells |-> cells, sources |-> sources, targets |-> targets, labels |-> labels]

FileCasts ==
    { FileCast(<<VertexCell("a", PlainStyle, "1", "Do you have fever?", Geometry(100, 100, 120, 60)),
                 VertexCell("b", PlainStyle, "1", "Fever &amp; cough", NoGeometry),
                 Wrapped(VertexCell("t", HexagonStyle, "1", "T", Geometry(0, 200, 80, 40)), "X")>>,
               {NoneStr, "a", "b"}, {NoneStr, "a", "b"}, {"Yes"}) }
    \cup
    { FileCast(<<Wrapped(VertexCell("d", RhombusStyle, "1", "Age > 5", NoGeometry), name),
                 Wrapped(VertexCell("t", HexagonStyle, "1", "T", NoGeometry), "X"),
                 VertexCell("a", PlainStyle, "1", "A", NoGeometry)>>,
               {"d", "a"}, {"t", "a"}, {"Yes", "No"})
      : name \in {"X", "Y", "F"} }
    \cup
    { FileCast(<<VertexCell("a", PlainStyle, "1", "A", NoGeometry),
                 VertexCell("d", RhombusStyle, "1", "Age > 5", NoGeometry),
                 VertexCell("b", PlainStyle, "1", "B", NoGeometry)>>,
               {"a", "b"}, {"a", "b"}, {""}) }
    \cup
    { FileCast(<<VertexCell("G", GroupStyle, "1", "Heading", NoGeometry),
                 VertexCell("m", PlainStyle, "G", "M", NoGeometry),
                 VertexCell("a", PlainStyle, "1", "A", NoGeometry),
                 VertexCell("s", ListStyle, "1", "S", NoGeometry),
                 VertexCell("o1", OptionStyle, "s", "first", Geometry(0, 40, 80, 20)),
                 VertexCell("o2", OptionStyle, "s", "second", Geometry(0, 20, 80, 20))>>,
               {"G", "a", "s", "o1", "zz"}, {"m", "a"}, {""}) }

FileOf(cast, es) ==
    [tree |-> "ok",
     cells |-> RootCells \o cast.cells \o
               [i \in 1..Len(es) |->
                   EdgeCell("e" \o ToString(i), es[i].source, es[i].target, es[i].label)]]

\* a file that is not well-formed XML, and one that cannot be read
BrokenFiles == {[tree |-> "malformed", cells |-> <<>>], [tree |-> "unreadable", cells |-> <<>>]}

Files ==
    UNION {{FileOf(cast, es) : es \in EdgeSeqs(cast)} : cast \in FileCasts}
    \cup BrokenFiles

\* DrawIoParser.__init__: externals.json is read from the working directory;
\* when it is missing a WARNING is collected and there is no external reference
InitIngest ==
    /\ source \in Files
    /\ diagram = EmptyDiagram
    /\ \E found \in BOOLEAN :
          /\ externals = IF found THEN [flags |-> {"F"}, numerics |-> {"N"}]
                         ELSE [flags |-> {}, numerics |-> {}]
          /\ results = IF found THEN <<>>
                       ELSE <<ValidationResult("WARNING", "failed to load externals",
                                               NoneStr, "Parser")>>
    /\ level \in Levels
    /\ raised = FALSE
    /\ graph = EmptyGraph
    /\ pre = EmptyGraph
    /\ pc = "parse_file"
    /\ probe = NoProbe

SpecIngest == InitIngest /\ [][NextIngest]_vars

----------------------------------------------------------------------------
(* Claims *)

\* C1: add_result aborts in STRICT mode exactly for ERROR and CRITICAL, in
\* NORMAL mode exactly for CRITICAL, and never in LENIENT mode, whatever was
\* collected before.
C1_AbortByModeAndSeverity ==
    (pc = "collector" /\ results # <<>>) =>
        LET sev == Last(results).severity
        IN  /\ level = "STRICT" => (raised <=> sev \in {"ERROR", "CRITICAL"})
            /\ level = "NORMAL" => (raised <=> sev = "CRITICAL")
            /\ level = "LENIENT" => ~raised

C1_Witness ==
    /\ pc = "collector"
    /\ level = "NORMAL"
    /\ Len(results) = MaxResults
    /\ results[1].severity = "ERROR"
    /\ Last(results).severity = "CRITICAL"
    /\ raised

\* the edges of a Diagram that have both endpoints form an acyclic graph
DiagramAcyclic(d) ==
    LET E == {<<d.edges[i].source, d.edges[i].target>> : i \in 1..Len(d.edges)}
        R[k \in 0..Len(d.edges)] ==
            IF k = 0 THEN E
            ELSE R[k-1] \cup
                 {<<p[1], q[2]>> : <<p, q>> \in {pq \in R[k-1] \X E : pq[1][2] = pq[2][1]}}
    IN  \A pr \in R[Len(d.edges)] : pr[1] # pr[2]

CycleReported == \E i \in 1..Len(results) :
                    results[i].severity = "CRITICAL" /\ results[i].message = "cycles"

\* C2 as claimed: for every Diagram whose edges form an acyclic graph, the
\* graph convert() returns contains no cycle.
C2_AcyclicInputAcyclicOutput ==
    (pc = "returned" /\ DiagramAcyclic(diagram)) => IsDirectedAcyclicGraph(graph)

\* C2 amended: for every Diagram whose edges form an acyclic graph, convert()
\* returns a graph with a cycle only in LENIENT mode and with the cycle
\* reported at CRITICAL; in STRICT and NORMAL mode, and with no collector
\* bound, a cycle the rewrites created makes convert() raise.
C2_CycleReturnedOnlyReported ==
    (pc \in {"returned", "raised"} /\ DiagramAcyclic(diagram)) =>
        /\ (pc = "returned" /\ ~IsDirectedAcyclicGraph(graph)) =>
               (level = "LENIENT" /\ CycleReported)
        /\ (~IsDirectedAcyclicGraph(graph) /\ level # "LENIENT") => pc = "raised"
        /\ (~IsDirectedAcyclicGraph(graph) /\ level \in Levels) => CycleReported

C2_Witness ==
    /\ pc = "returned"
    /\ DiagramAcyclic(diagram)
    /\ ~IsDirectedAcyclicGraph(graph)
    /\ \E n \in NodeSet(InitialConversionOf(diagram)) :
          NodeAttrs(InitialConversionOf(diagram), n).type = "goto"
    /\ level = "LENIENT"
    /\ CycleReported

\* the first logic condition of an edge is (subject, op, value)
LogicIs(e, subject, op, value) ==
    /\ e.a.logic # <<>>
    /\ e.a.logic[1].type = "condition"
    /\ e.a.logic[1].subject = subject
    /\ e.a.logic[1].op = op
    /\ e.a.logic[1].value = value

\* the edges of the Diagram that leave node n
DiagramOutEdges(d, n) == SelectSeq(d.edges, LAMBDA e : e.source = n)

\* the rectangles of the Diagram with exactly two outgoing edges, one
\* labelled yes and one labelled no in any letter case, to two other nodes
YesNoRectangles(d) ==
    {i \in 1..Len(d.nodes) :
        /\ d.nodes[i].shape = "rectangle"
        /\ LET out == DiagramOutEdges(d, d.nodes[i].id)
           IN  /\ Len(out) = 2
               /\ {Lower(out[1].label), Lower(out[2].label)} = {"yes", "no"}
               /\ out[1].target # out[2].target
               /\ d.nodes[i].id \notin {out[1].target, out[2].target}}

LogicComputed == pc \in {"validate", "returned", "raised"}

\* C3 as claimed: a rectangle whose two outgoing edges are labelled Yes and
\* No becomes a select_one node with options {yes, no}; the Yes edge carries
\* Condition(node, "=", "yes") and the No edge Condition(node, "!=", "yes").
C3_YesNoLogic ==
    LogicComputed =>
        \A i \in YesNoRectangles(diagram) :
            LET n == diagram.nodes[i].id
                out == DiagramOutEdges(diagram, n)
            IN  /\ HasNodeG(graph, n)
                /\ NodeAttrs(graph, n).type = "select_one"
                /\ {o.label : o \in SeqToSet(NodeAttrs(graph, n).options)} = {"yes", "no"}
                /\ \A k \in 1..2 :
                      /\ HasEdge(graph, n, out[k].target)
                      /\ LogicIs(EdgeOf(graph, n, out[k].target), n,
                                 IF Lower(out[k].label) = "yes" THEN "=" ELSE "!=",
                                 VStr("yes"))

\* the pass that ran last
JustRan(pass) ==
    CASE pass = "select_options" -> pc = "goto_nodes"
    []   pass = "goto_nodes" -> pc = "groups"
    []   pass = "groups" -> pc = "help_hint"
    []   pass = "help_hint" -> pc = "combine_notes"
    []   pass = "combine_notes" -> pc = "edge_logic"

\* C4 as claimed: after select-option inlining, for every select node s,
\* every option o of s and every edge o -> t that existed before the pass,
\* the graph has an edge s -> t with option = o.label and the id and label
\* of that edge, and o is no longer a node.
C4_OptionEdgesReattached ==
    JustRan("select_options") =>
        \A i \in 1..Len(pre.nodes) :
            (pre.attrs[i].type \in {"select_one", "select_multiple"}) =>
                \A k \in 1..Len(pre.attrs[i].options) :
                    LET s == pre.nodes[i]
                        o == pre.attrs[i].options[k]
                    IN  HasNodeG(pre, o.id) =>
                            /\ ~HasNodeG(graph, o.id)
                            /\ \A e \in SeqToSet(OutEdges(pre, o.id)) :
                                  /\ HasEdge(graph, s, e.tgt)
                                  /\ EdgeOf(graph, s, e.tgt).a.option = o.label
                                  /\ EdgeOf(graph, s, e.tgt).a.id = e.a.id
                                  /\ EdgeOf(graph, s, e.tgt).a.label = e.a.label

\* the goto nodes of g whose name is the name of some other node of g
NamedElsewhere(g, n) ==
    /\ NodeAttrs(g, n).name # NoneStr
    /\ \E m \in NodeSet(g) : m # n /\ NodeAttrs(g, m).name = NodeAttrs(g, n).name

\* C5 as claimed: after goto resolution every goto whose name is the name of
\* another node is removed and each edge p -> g into it is replaced by an
\* edge from p to another node of that name, with the same id and label; a
\* goto whose name matches no other node stays, with its edges unchanged.
C5_GotoResolved ==
    JustRan("goto_nodes") =>
        \A g \in NodeSet(pre) :
            NodeAttrs(pre, g).type = "goto" =>
                IF NamedElsewhere(pre, g)
                THEN /\ ~HasNodeG(graph, g)
                     /\ \A e \in SeqToSet(InEdges(pre, g)) :
                           e.src # g =>
                               \E t \in NodeSet(graph) :
                                   /\ t # g
                                   /\ NodeAttrs(graph, t).name = NodeAttrs(pre, g).name
                                   /\ HasEdge(graph, e.src, t)
                                   /\ EdgeOf(graph, e.src, t).a.id = e.a.id
                                   /\ EdgeOf(graph, e.src, t).a.label = e.a.label
                ELSE /\ HasNodeG(graph, g)
                     /\ InEdges(graph, g) = InEdges(pre, g)
                     /\ OutEdges(graph, g) = OutEdges(pre, g)

\* the members of group gid that are nodes of g and not typed help or hint
EligibleMembers(d, g, gid) ==
    {m \in SeqToSet(GroupOf(d, gid).contained_elements) :
        HasNodeG(g, m) /\ NodeAttrs(g, m).type \notin {"help", "hint"}}

\* C6: after group flattening, for every edge src -> g that targeted a group
\* with at least one member in the graph that is not help/hint typed, no
\* edge src -> g remains and there is an edge from src to such a member with
\* the original id and label and original_target = g.
C6_GroupEdgesRedirected ==
    JustRan("groups") =>
        \A e \in SeqToSet(pre.edges) :
            (e.tgt \in GroupIds(diagram) /\ EligibleMembers(diagram, pre, e.tgt) # {}) =>
                /\ ~HasEdge(graph, e.src, e.tgt)
                /\ \E m \in EligibleMembers(diagram, graph, e.tgt) :
                      /\ HasEdge(graph, e.src, m)
                      /\ EdgeOf(graph, e.src, m).a.id = e.a.id
                      /\ EdgeOf(graph, e.src, m).a.label = e.a.label
                      /\ EdgeOf(graph, e.src, m).a.original_target = e.tgt

\* an edge into a group whose first member in iteration order is a help
\* node has been redirected past it
C6_Witness ==
    /\ JustRan("groups")
    /\ \E e \in SeqToSet(pre.edges) :
          /\ e.tgt \in GroupIds(diagram)
          /\ LET members == GroupOf(diagram, e.tgt).contained_elements
             IN  /\ NodeAttrs(pre, members[1]).type = "help"
                 /\ HasEdge(graph, e.src, members[2])
                 /\ EdgeOf(graph, e.src, members[2]).a.original_target = e.tgt

\* the help and hint nodes of g that have no outgoing edge
OrphanHelpHints(g) ==
    {n \in NodeSet(g) : NodeAttrs(g, n).type \in {"help", "hint"} /\ OutEdges(g, n) = <<>>}

\* C7 as claimed: after help/hint absorption every help or hint node that
\* had no outgoing edge is no longer a node of the graph, and a WARNING whose
\* element is that node is in the collector.
C7_OrphanHelpHintDeletedAndReported ==
    (JustRan("help_hint") /\ level \in Levels) =>
        \A h \in OrphanHelpHints(pre) :
            /\ ~HasNodeG(graph, h)
            /\ \E i \in 1..Len(results) :
                  results[i].severity = "WARNING" /\ results[i].element_id = h

\* C8: when note fusion returns, no two notes n, s are left with s the only
\* successor of n and n the only predecessor of s, and running the pass on
\* its own output gives that output back.
C8_NoFusiblePairLeft ==
    JustRan("combine_notes") =>
        /\ \A n \in NodeSet(graph), s \in NodeSet(graph) :
              ~(/\ NodeAttrs(graph, n).type = "note"
                /\ NodeAttrs(graph, s).type = "note"
                /\ Successors(graph, n) = {s}
                /\ Predecessors(graph, s) = {n})
        /\ CombineSuccessiveNotes(graph) = graph

\* a chain of three notes has been fused into one node, in two rounds
C8_Witness ==
    /\ JustRan("combine_notes")
    /\ Len(pre.nodes) = 3
    /\ \A n \in NodeSet(pre) : NodeAttrs(pre, n).type = "note"
    /\ Len(pre.edges) = 2
    /\ Len(graph.nodes) = 1
    /\ CombineSuccessiveNotesOnce(pre) # graph

\* the decision points of the graph initial conversion builds
DecisionPoints(d) ==
    {n \in NodeSet(InitialConversionOf(d)) :
        NodeAttrs(InitialConversionOf(d), n).type = "decision_point"}

\* the edges, with their logic attribute blanked
WithoutLogic(edges) ==
    [i \in 1..Len(edges) |-> [edges[i] EXCEPT !.a.logic = NoEdgeAttrs.logic]]

AwayFromRewrittenTargets(d, n) ==
    \A e \in SeqToSet(OutEdges(InitialConversionOf(d), n)) :
        /\ NodeAttrs(InitialConversionOf(d), e.tgt).type # "goto"
        /\ e.tgt \in {d.nodes[i].id : i \in 1..Len(d.nodes)}

StatedOperator(label) ==
    CASE label = "Age > 5" -> ">"
    []   label = "Age = 5" -> "="
    []   label = "Age <= 5" -> "<="
    []   label = "Age != 5" -> "!="

\* neg swaps = with !=, > with <=, and < with >=
Neg(op) ==
    CASE op = "=" -> "!=" [] op = "!=" -> "="
    []   op = ">" -> "<=" [] op = "<=" -> ">"
    []   op = "<" -> ">=" [] op = ">=" -> "<"

\* C10 as claimed: for a decision point that references a numeric node and
\* whose label is 'text op number', the outgoing edge labelled Yes carries
\* Condition(ref, op, number) and the one labelled No carries
\* Condition(ref, neg(op), number).
C10_NumericDecisionLogic ==
    LogicComputed =>
        \A n \in NodeSet(graph) :
            LET a == NodeAttrs(graph, n)
                ref == ReferenceId(graph, a.name)
            IN  (/\ a.type = "decision_point"
                 /\ ref # NoneStr
                 /\ NodeAttrs(graph, ref).type = "numeric") =>
                    \A e \in SeqToSet(OutEdges(graph, n)) :
                        /\ Lower(e.a.label) = "yes" =>
                               LogicIs(e, ref, StatedOperator(a.label), VInt(5))
                        /\ Lower(e.a.label) = "no" =>
                               LogicIs(e, ref, Neg(StatedOperator(a.label)), VInt(5))

\* C11 as claimed: for a decision point that references a select_multiple
\* node and whose label holds a bracketed token [x], the outgoing edge
\* labelled Yes carries Condition(ref, "contains", x) and the one labelled
\* No carries Condition(ref, "not-contains", x).
C11_SelectMultipleDecisionLogic ==
    LogicComputed =>
        \A n \in NodeSet(graph) :
            LET a == NodeAttrs(graph, n)
                ref == ReferenceId(graph, a.name)
            IN  (/\ a.type = "decision_point"
                 /\ ref # NoneStr
                 /\ NodeAttrs(graph, ref).type = "select_multiple"
                 /\ a.label \in {"Symptom [cough]", "Symptom [ cough ]"}) =>
                    \A e \in SeqToSet(OutEdges(graph, n)) :
                        /\ Lower(e.a.label) = "yes" =>
                               LogicIs(e, ref, "contains", VStr("cough"))
                        /\ Lower(e.a.label) = "no" =>
                               LogicIs(e, ref, "not-contains", VStr("cough"))

\* C12 as claimed: an edge whose source is typed flag carries
\* Condition("flags", "in", source.label) when its label is empty or yes,
\* Condition("flags", "not-in", source.label) when its label is no, and no
\* logic for any other label.
C12_FlagEdgeLogic ==
    LogicComputed =>
        \A e \in SeqToSet(graph.edges) :
            NodeAttrs(graph, e.src).type = "flag" =>
                LET flag_label == VStr(NodeAttrs(graph, e.src).label)
                IN  IF e.a.label = "" \/ Lower(e.a.label) = "yes"
                    THEN LogicIs(e, "flags", "in", flag_label)
                    ELSE IF Lower(e.a.label) = "no"
                    THEN LogicIs(e, "flags", "not-in", flag_label)
                    ELSE e.a.logic = NoLogic

\* the shape the Diagram gives node n, NoneStr when n is none of its nodes
ShapeOf(d, n) ==
    IF \E i \in 1..Len(d.nodes) : d.nodes[i].id = n
    THEN d.nodes[CHOOSE i \in 1..Len(d.nodes) : d.nodes[i].id = n].shape
    ELSE NoneStr

\* C13 as claimed: after convert() every hexagon is typed numeric with
\* value_type int, every ellipse is typed numeric with value_type float,
\* and no node is typed integer or decimal.
C13_NumericKindRetained ==
    pc = "returned" =>
        \A n \in NodeSet(graph) :
            /\ NodeAttrs(graph, n).type \notin {"integer", "decimal"}
            /\ ShapeOf(diagram, n) = "hexagon" =>
                   (NodeAttrs(graph, n).type = "numeric" /\ NodeAttrs(graph, n).value_type = "int")
            /\ ShapeOf(diagram, n) = "ellipse" =>
                   (NodeAttrs(graph, n).type = "numeric" /\ NodeAttrs(graph, n).value_type = "float")

\* the edge cells of the file that have neither a source nor a target
GhostCells ==
    {i \in DOMAIN source.cells :
        /\ source.cells[i].edge = "1"
        /\ source.cells[i].source = NoneStr
        /\ source.cells[i].target = NoneStr}

\* the results collected for an element
ResultsFor(id) == SelectSeq(results, LAMBDA r : r.element_id = id)

\* parse_edges has gone through every edge cell
EdgesParsed ==
    pc \in {"validate_structure", "parsed", "initial_conversion", "type_consolidation",
            "select_options", "goto_nodes", "groups", "help_hint", "combine_notes",
            "edge_logic", "validate", "returned"}

\* an except clause of parse_file ended the ingestion
IngestionAborted ==
    /\ pc \in {"raised", "unbound_local_error"}
    /\ results # <<>>
    /\ Last(results).element_type \in {"XML", "Parsing"}

\* C14: in every validation mode an edge cell with neither source nor target
\* is never an edge of the Diagram and never an edge of the compiled graph;
\* once the edge cells have been read exactly one result is collected for
\* it, a WARNING; and ingestion is never aborted on that result.
C14_GhostEdgeRejected ==
    \A i \in GhostCells :
        LET id == source.cells[i].id
        IN  /\ ~HasItem(diagram.edges, id)
            /\ \A k \in 1..Len(graph.edges) : graph.edges[k].a.id # id
            /\ EdgesParsed =>
                  /\ Len(ResultsFor(id)) = 1
                  /\ ResultsFor(id)[1].severity = "WARNING"
            /\ (IngestionAborted /\ Len(results) >= 2) =>
                  results[Len(results) - 1].element_id # id

C14_Witness ==
    /\ pc = "returned"
    /\ level = "STRICT"
    /\ Cardinality(GhostCells) = 1
    /\ Len(diagram.edges) = 1
    /\ Len(graph.edges) = 1
    /\ \E i \in GhostCells : Len(ResultsFor(source.cells[i].id)) = 1

\* the names a rhombus may refer to: those of the nodes that are not
\* rhombi, and the external flag and numeric references
ResolvableNames ==
    {diagram.nodes[k].name : k \in {j \in 1..Len(diagram.nodes) :
                                       /\ diagram.nodes[j].shape # "rhombus"
                                       /\ diagram.nodes[j].name # ""}}
    \cup externals.flags \cup externals.numerics

\* C15: once validate_structure has gone through the Diagram, an ERROR is
\* collected for a rhombus node if and only if its name is neither the name
\* of a node that is not a rhombus nor an external flag or numeric
\* reference; a rhombus whose name resolves has no result.
C15_RhombusReportedIffUnresolved ==
    pc = "parsed" =>
        \A k \in 1..Len(diagram.nodes) :
            LET n == diagram.nodes[k]
            IN  n.shape = "rhombus" =>
                  /\ (\E i \in 1..Len(results) :
                          /\ results[i].element_id = n.id
                          /\ results[i].severity = "ERROR")
                      <=> n.name \notin ResolvableNames
                  /\ n.name \in ResolvableNames => ResultsFor(n.id) = <<>>

\* the ids an edge may leave from: the nodes that are not lists, and the
\* select-options
NodeOrOptionIds ==
    {diagram.nodes[k].id : k \in {j \in 1..Len(diagram.nodes) :
                                     diagram.nodes[j].shape # "list"}}
    \cup UNION {{diagram.nodes[k].options[j].id : j \in 1..Len(diagram.nodes[k].options)} :
                   k \in 1..Len(diagram.nodes)}

\* the edge cells with both endpoints whose source is a group, a list or
\* unknown
BadSourceCells ==
    {i \in DOMAIN source.cells :
        /\ source.cells[i].edge = "1"
        /\ source.cells[i].source \notin {NoneStr, ""}
        /\ source.cells[i].target \notin {NoneStr, ""}
        /\ source.cells[i].source \notin NodeOrOptionIds}

\* parse_file has returned a Diagram
Ingested ==
    pc \in {"parsed", "initial_conversion", "type_consolidation", "select_options",
            "goto_nodes", "groups", "help_hint", "combine_notes", "edge_logic",
            "validate", "returned"}

\* C16: in NORMAL and LENIENT mode an edge cell whose source is a group id,
\* or neither a non-list node nor a select-option, has an ERROR collected
\* for it and is neither an edge of the Diagram parse_file returns nor an
\* edge of the compiled graph: every edge of the Diagram leaves a node or
\* a select-option.
C16_BadSourceEdgeRejected ==
    (Ingested /\ level \in {"NORMAL", "LENIENT"}) =>
        /\ \A i \in BadSourceCells :
              LET id == source.cells[i].id
              IN  /\ \E k \in 1..Len(results) :
                        results[k].element_id = id /\ results[k].severity = "ERROR"
                  /\ ~HasItem(diagram.edges, id)
                  /\ \A k \in 1..Len(graph.edges) : graph.edges[k].a.id # id
        /\ \A k \in 1..Len(diagram.edges) : diagram.edges[k].source \in NodeOrOptionIds

\* the edges of the input Diagram that have both endpoints, one of which
\* is not a node of the Diagram
EdgesOffTheNodes ==
    {k \in 1..Len(diagram.edges) :
        /\ diagram.edges[k].source \notin {NoneStr, ""}
        /\ diagram.edges[k].target \notin {NoneStr, ""}
        /\ \/ ~HasItem(diagram.nodes, diagram.edges[k].source)
           \/ ~HasItem(diagram.nodes, diagram.edges[k].target)}

\* C17: when an edge of the input Diagram has an endpoint that is not a
\* node of the Diagram and a collector is bound, a convert() that returns
\* has collected an ERROR that reports dangling edges.
C17_DanglingEdgeReported ==
    (pc = "returned" /\ level # NoValidator /\ EdgesOffTheNodes # {}) =>
        \E k \in 1..Len(results) :
            /\ results[k].severity = "ERROR"
            /\ results[k].element_type = "Graph"
            /\ results[k].message = "dangling"

\* C18: parse_file ends only by returning or by the abort of the
\* validation mode: it never fails otherwise, in LENIENT mode it never
\* fails at all, and for a file that is not well-formed a CRITICAL result
\* is collected and nothing is ingested.
C18_ParseFileReturnsOrAborts ==
    /\ pc # "unbound_local_error"
    /\ level = "LENIENT" => ~IngestionAborted
    /\ (source.tree = "malformed" /\ pc # "parse_file") =>
          /\ \E k \in 1..Len(results) :
                results[k].severity = "CRITICAL" /\ results[k].element_type = "XML"
          /\ diagram = EmptyDiagram
          /\ graph = EmptyGraph

\* the rhombus cells of the file that carry no name
NamelessRhombusCells ==
    {i \in DOMAIN source.cells :
        /\ source.cells[i].vertex = "1"
        /\ \E k \in 1..Len(source.cells[i].style) : source.cells[i].style[k] = <<"rhombus">>
        /\ source.cells[i].name = NoneStr}

\* the other vertex cells of the file that stand for a node of their own
PlainVertexCells ==
    {i \in DOMAIN source.cells :
        /\ source.cells[i].vertex = "1"
        /\ i \notin NamelessRhombusCells
        /\ \A k \in 1..Len(source.cells[i].style) : source.cells[i].style[k] # <<"swimlane">>
        /\ \A j \in DOMAIN source.cells :
              source.cells[i].parent = source.cells[j].id =>
                  \A k \in 1..Len(source.cells[j].style) :
                      source.cells[j].style[k] # <<"childLayout", "stackLayout">>}

\* C19: in NORMAL and LENIENT mode a rhombus cell without a name does not
\* abort ingestion; in the Diagram parse_file returns the rhombus is
\* missing, one ERROR is collected for it, and every other node cell of the
\* file is a node.
C19_NamelessRhombusDropped ==
    (level \in {"NORMAL", "LENIENT"} /\ NamelessRhombusCells # {}) =>
        /\ ~IngestionAborted
        /\ pc # "unbound_local_error"
        /\ Ingested =>
              /\ \A i \in NamelessRhombusCells :
                    /\ ~HasItem(diagram.nodes, source.cells[i].id)
                    /\ Len(ResultsFor(source.cells[i].id)) = 1
                    /\ ResultsFor(source.cells[i].id)[1].severity = "ERROR"
              /\ \A i \in PlainVertexCells :
                    HasItem(diagram.nodes, IF source.cells[i].wrapped
                                           THEN source.cells[i].wrapper_id
                                           ELSE source.cells[i].id)

\* the id and the label a cell shows: those of its wrapper when it has one,
\* the label with its HTML entities decoded
ShownId(cell) == IF cell.wrapped THEN cell.wrapper_id ELSE cell.id

ShownLabel(cell) ==
    LET text == IF cell.wrapped THEN cell.wrapper_label ELSE cell.value
    IN  HtmlUnescape(IF text = NoneStr THEN "" ELSE text)

\* the edge cells of the file that have a source and a target
CompleteEdgeCells ==
    {i \in DOMAIN source.cells :
        /\ source.cells[i].edge = "1"
        /\ source.cells[i].source \notin {NoneStr, ""}
        /\ source.cells[i].target \notin {NoneStr, ""}}

EarliestInserted(d, g, gid) ==
    LET inserted == GroupOf(d, gid).inserted
        ok == {i \in 1..Len(inserted) : inserted[i] \in EligibleMembers(d, g, gid)}
    IN  inserted[CHOOSE i \in ok : \A j \in ok : i <= j]

\* C21: after group flattening every edge that targeted a group with an
\* eligible member leads to the earliest-inserted member of the group that
\* is not help/hint typed, so the node it is redirected to is fixed by the
\* Diagram (its members and the order of their insertion) alone.
C21_RedirectedToEarliestInserted ==
    JustRan("groups") =>
        \A e \in SeqToSet(pre.edges) :
            (e.tgt \in GroupIds(diagram) /\ EligibleMembers(diagram, pre, e.tgt) # {}) =>
                LET m == EarliestInserted(diagram, pre, e.tgt)
                IN  /\ HasEdge(graph, e.src, m)
                    /\ EdgeOf(graph, e.src, m).a.original_target = e.tgt

----------------------------------------------------------------------------
(* Classification of rectangles *)

\* the graph as _determine_node_types leaves it
Classified == pc = "type_consolidation"

RectangleIds(g) == {n \in NodeSet(g) : NodeAttrs(g, n).shape = "rectangle"}

\* the type (and severity) the precedence list gives a rectangle; yesno is
\* the reading of "every outgoing edge label is yes or no"
ByPrecedence(yesno, incoming, rounded, fill) ==
    IF yesno THEN <<"select_one_yesno", NoneStr>>
    ELSE IF incoming = 0 /\ IsColorInRange(fill, "green") THEN <<"help", NoneStr>>
    ELSE IF incoming = 0 /\ IsColorInRange(fill, "grey") THEN <<"hint", NoneStr>>
    ELSE IF rounded
    THEN IF IsColorInRange(fill, "red") THEN <<"diagnosis", "SEVERE">>
         ELSE IF IsColorInRange(fill, "orange") \/ IsColorInRange(fill, "yellow")
         THEN <<"diagnosis", "MODERATE">>
         ELSE IF IsColorInRange(fill, "green") THEN <<"diagnosis", "BENIGN">>
         ELSE <<"calculate", NoneStr>>
    ELSE <<"note", NoneStr>>

OutLabels(g, n) == {Lower(LabelOr(e.a)) : e \in SeqToSet(OutEdges(g, n))}

TypeAndSeverity(g, n) == <<NodeAttrs(g, n).type, NodeAttrs(g, n).severity>>

\* C22 as claimed: a rectangle whose outgoing edge labels are all yes/no,
\* which includes a rectangle without outgoing edges, is typed
\* select_one_yesno; every other rectangle follows the precedence help,
\* hint, diagnosis by colour, calculate, note.
C22_AsClaimed ==
    Classified =>
        \A n \in RectangleIds(graph) :
            TypeAndSeverity(graph, n) =
                ByPrecedence(OutLabels(graph, n) \subseteq {"yes", "no"},
                             Len(InEdges(graph, n)),
                             NodeAttrs(graph, n).rounded,
                             NodeAttrs(graph, n).fill_color)

\* C22: a rectangle with at least one outgoing edge whose outgoing edge
\* labels are all yes/no (any case) is typed select_one_yesno; every other
\* rectangle, a rectangle without outgoing edges included, is typed by the
\* precedence: no incoming edge and green gives help, no incoming edge and
\* grey gives hint, rounded gives diagnosis SEVERE (red), MODERATE (orange
\* or yellow), BENIGN (green) or calculate, anything else gives note.
C22_RectangleClassification ==
    Classified =>
        \A n \in RectangleIds(graph) :
            TypeAndSeverity(graph, n) =
                ByPrecedence(/\ OutLabels(graph, n) # {}
                             /\ OutLabels(graph, n) \subseteq {"yes", "no"},
                             Len(InEdges(graph, n)),
                             NodeAttrs(graph, n).rounded,
                             NodeAttrs(graph, n).fill_color)

\* the precedence is exercised: a yes/no question leads to a rounded green
\* rectangle without outgoing edges, which is a benign diagnosis
C22_Witness ==
    /\ Classified
    /\ \E n \in RectangleIds(graph) : NodeAttrs(graph, n).type = "select_one_yesno"
    /\ \E n \in RectangleIds(graph) :
           /\ OutLabels(graph, n) = {}
           /\ Len(InEdges(graph, n)) > 0
           /\ TypeAndSeverity(graph, n) = <<"diagnosis", "BENIGN">>

----------------------------------------------------------------------------
(* The grey range *)

\* channel c of the colour is within 10 of the mean of the three channels
\* (both sides multiplied by 3)
NearMean(color, c) == Abs(3 * color[c] - (color[1] + color[2] + color[3])) <= 30

\* C23: the grey test of a colour returns true exactly when each of the
\* channels r, g and b differs from the mean (r + g + b) / 3 by at most 10.
C23_GreyIffAllChannelsNearMean ==
    (probe.fn = "is_color_in_range" /\ pc = "returned") =>
        (probe.returned <=> \A c \in 1..3 : NearMean(probe.color, c))

----------------------------------------------------------------------------
(* Decision points that reference an external or nothing *)

\* the edges that leave a decision point whose name matches no node and
\* that the oracle classifies as numeric or unknown
OracleEdges(g, ext) ==
    {e \in SeqToSet(g.edges) :
        LET a == NodeAttrs(g, e.src)
            name == IF a.name = NoneStr THEN "" ELSE a.name
        IN  /\ a.type = "decision_point"
            /\ ReferenceId(g, name) = NoneStr
            /\ ReferenceType(g, ext, name, NoneStr) \in {"numeric", "unknown"}}

\* C24: every edge that leaves a decision point whose name resolves only
\* through the external references (as numeric) or to nothing carries a
\* condition whose subject is the name the decision point references,
\* never a null or empty subject.
C24_OracleSubjectIsReference ==
    pc = "validate" =>
        \A e \in OracleEdges(graph, externals) :
            /\ e.a.logic # <<>>
            /\ e.a.logic[1].subject = NodeAttrs(graph, e.src).name
            /\ e.a.logic[1].subject \notin {NoneStr, ""}

----------------------------------------------------------------------------
(* Edges that leave a select_one node *)

SelectOneEdges(g) ==
    {e \in SeqToSet(g.edges) : NodeAttrs(g, e.src).type = "select_one"}

\* C25: an edge that leaves a select_one node carries Condition(source, "=",
\* option) when it has an option and its label is yes (any case),
\* Condition(source, "!=", option) when it has an option and its label is
\* no, and no logic in every other case, in particular when it has no
\* option.
C25_SelectOneLogic ==
    pc = "validate" =>
        \A e \in SelectOneEdges(graph) :
            IF e.a.option # NoneStr /\ Lower(LabelOr(e.a)) = "yes"
            THEN LogicIs(e, e.src, "=", VStr(e.a.option))
            ELSE IF e.a.option # NoneStr /\ Lower(LabelOr(e.a)) = "no"
            THEN LogicIs(e, e.src, "!=", VStr(e.a.option))
            ELSE e.a.logic = <<>>

----------------------------------------------------------------------------
(* Cycles among the edges of a Diagram *)

\* C26: validate_dag returns true exactly when the edges of the Diagram
\* form no cycle, and false when they form one, also when the cycle cannot
\* be reached from a node without incoming edges.
C26_ValidateDagDetectsCycles ==
    (probe.fn = "validate_dag" /\ pc # "validate_dag") =>
        probe.returned = IF DiagramAcyclic(diagram) THEN "True" ELSE "False"

----------------------------------------------------------------------------
(* The collected results *)

\* C27: every add_result appends exactly one result and leaves the results
\* collected before it in place, and it does so before the abort is
\* decided: after an aborting call the last result is the issue that
\* aborted.  has_critical_issues holds exactly when a collected result is
\* CRITICAL.
C27_ResultsAppendOnly ==
    /\ [][/\ Len(results') = Len(results) + 1
          /\ SubSeq(results', 1, Len(results)) = results
          /\ raised' => \/ level = "STRICT" /\ Last(results').severity \in {"ERROR", "CRITICAL"}
                        \/ level = "NORMAL" /\ Last(results').severity = "CRITICAL"]_vars
    /\ [](HasCriticalIssues(results) <=>
              "CRITICAL" \in {results[i].severity : i \in 1..Len(results)})

\* a STRICT collector aborted on an ERROR that follows a WARNING; both are
\* in the results and there is no critical issue
C27_Witness ==
    /\ pc = "collector"
    /\ level = "STRICT"
    /\ raised
    /\ Len(results) = 2
    /\ results[1].severity = "WARNING"
    /\ results[2].severity = "ERROR"
    /\ ~HasCriticalIssues(results)

----------------------------------------------------------------------------
(* The edges and the nodes of the graph *)

\* C28: after the initial conversion the graph has exactly one edge per
\* edge of the Diagram, with that edge's endpoints, id and label, also when
\* two edges of the Diagram connect the same ordered pair of nodes.
C28_InitialConversionKeepsEveryEdge ==
    Classified =>
        /\ Len(graph.edges) = Len(diagram.edges)
        /\ \A i \in 1..Len(diagram.edges) :
               \E e \in SeqToSet(graph.edges) :
                   /\ e.src = diagram.edges[i].source
                   /\ e.tgt = diagram.edges[i].target
                   /\ e.a.id = diagram.edges[i].id
                   /\ e.a.label = diagram.edges[i].label

DiagramNodeIds(d) == {d.nodes[i].id : i \in 1..Len(d.nodes)}

\* C29: every node of the graph that convert() returns is a node of the
\* input Diagram; no group id, option id or other edge endpoint remains.
C29_ReturnedNodesAreDiagramNodes ==
    pc = "returned" => NodeSet(graph) \subseteq DiagramNodeIds(diagram)

----------------------------------------------------------------------------
(* The registry of external references *)

\* C30: after any sequence of calls, a name is a valid reference exactly
\* when it is a flag reference or a numeric reference; right after
\* remove_reference(n) returned true, n is not a valid reference; and
\* remove_reference(n) returns false and changes nothing when n is in
\* neither set.
C30_RegistryConsistent ==
    /\ \A n \in ReferenceNames :
           IsValidReference(externals, n) <=>
               (IsFlagReference(externals, n) \/ IsNumericReference(externals, n))
    /\ (probe.fn = "remove_reference" /\ probe.returned = TRUE) =>
           ~IsValidReference(externals, probe.reference_name)
    /\ (/\ probe.fn = "remove_reference"
        /\ probe.reference_name \notin probe.before.flags \cup probe.before.numerics) =>
           (probe.returned = FALSE /\ externals = probe.before)
====
